---- MODULE Spec2Model ----
(***************************************************************************)
(* A model of clox-rs: the scanner, the single-pass Pratt compiler, the    *)
(* stack VM and the file-runner driver.                                   *)
(*                                                                         *)
(* Source text is a sequence of one-character strings.  The compiler's    *)
(* recursive descent is run on an explicit call stack (frames): every     *)
(* action is one function of compiler.rs, with one disjunct per stretch   *)
(* of its body between two calls of a recursive function.  The VM         *)
(* executes one instruction per step.                                     *)
(***************************************************************************)
EXTENDS Integers, Sequences, FiniteSets, TLC

VARIABLES
    args,       \* args.len() of main (main.rs:18): the program's name and its arguments
    stdin,      \* the standard input of repl: its lines, each with its newline, how
                \* many of them are read, and how often read_line has returned Ok(0)
                \* at the end of the input
    buffer,     \* the String that repl reads into (main.rs:33)
    source,     \* the text read by run_file (main.rs:50)
    phase,      \* where the process is: "main", "repl", and in run_file "start",
                \* "compile" (in Compiler::compile), "compiled", "run" (in Vm::run),
                \* "returned"; then "exit"
    compiler,   \* the Compiler struct (compiler.rs:12-21), without its vm borrow
    frames,     \* the call stack of the compiler's functions, top last
    vm,         \* the Vm struct (vm.rs:16-22)
    stdout,     \* what print wrote, one entry per line
    stderr,     \* the diagnostics written, one entry per message
    result,     \* what compile and interpret returned: "none", "ok",
                \* "compile_error", "runtime_error", or "panic" (the thread panicked)
    exit_code,  \* the status the process exits with, once phase is "exit"
    boundaries  \* history, which no action reads: slots gives, for each offset of
                \* the chunk at which a GetLocal or SetLocal was emitted, the number
                \* of initialized locals the compiler had then; count gives, for each offset of
                \* the chunk at which the compiler stood between two statements,
                \* the number of locals the text has in scope there; reading is
                \* the text as read up to the last of these places

vars ==
    <<args, stdin, buffer, source, phase, compiler, frames, vm, stdout, stderr, result, exit_code,
      boundaries>>

(***************************************************************************)
(* Characters                                                              *)
(***************************************************************************)

\* Option::None of a peeked character.
NoChar == ""

Digits == {"0", "1", "2", "3", "4", "5", "6", "7", "8", "9"}

Letters ==
    {"a", "b", "c", "d", "e", "f", "g", "h", "i", "j", "k", "l", "m",
     "n", "o", "p", "q", "r", "s", "t", "u", "v", "w", "x", "y", "z",
     "A", "B", "C", "D", "E", "F", "G", "H", "I", "J", "K", "L", "M",
     "N", "O", "P", "Q", "R", "S", "T", "U", "V", "W", "X", "Y", "Z"}

is_alpha(c) == c \in Letters \/ c = "_"

is_ascii_digit(c) == c \in Digits

\* The value of a decimal digit.
DigitValue(c) ==
    CASE c = "0" -> 0 [] c = "1" -> 1 [] c = "2" -> 2 [] c = "3" -> 3
      [] c = "4" -> 4 [] c = "5" -> 5 [] c = "6" -> 6 [] c = "7" -> 7
      [] c = "8" -> 8 [] c = "9" -> 9

(***************************************************************************)
(* Scanner (scanner.rs).  start and current are offsets into src: the     *)
(* Rust fields are the suffixes of the source that begin there.           *)
(***************************************************************************)

ScannerNew(src) == [src |-> src, start |-> 0, current |-> 0, line |-> 1]

\* A scanner is kept in the state as its two offsets and its line, Offsets(sc): the
\* text they point into is the source, and Scanning puts it back.
Offsets(sc) == [start |-> sc.start, current |-> sc.current, line |-> sc.line]

Scanning(offsets, src) ==
    [src |-> src, start |-> offsets.start, current |-> offsets.current,
     line |-> offsets.line]

\* is_at_end with the fault of never seeing the end: the fault
\* C29_ScannerReachesEof is to detect.
is_at_end_never(sc) == FALSE

is_at_end(sc) == sc.current >= Len(sc.src)

peek(sc) == IF sc.current < Len(sc.src) THEN sc.src[sc.current + 1] ELSE NoChar

peek_next(sc) ==
    IF sc.current + 1 < Len(sc.src) THEN sc.src[sc.current + 2] ELSE NoChar

bump_current_by(sc, offset) == [sc EXCEPT !.current = @ + offset]

\* slice_to(self.start, self.current)
slice_to(sc) == SubSeq(sc.src, sc.start + 1, sc.current)

make_token(sc, token_type) ==
    [token_type |-> token_type, lexeme |-> slice_to(sc), line |-> sc.line]

\* A text is a sequence of strings, read as their concatenation: a slice of the
\* source is one string per character, a message is one string.
UnexpectedCharacter == <<"Unexpected character.">>

UnterminatedString == <<"Unterminated string.">>

error_token(sc, message) ==
    [token_type |-> "Error", lexeme |-> message, line |-> sc.line]

\* Scanner::match_: consumes the next character when it is the expected one.
scanner_match(sc, expected) == peek(sc) # NoChar /\ peek(sc) = expected

\* The body of the comment loop of skip_whitespace: up to the newline or the end.
RECURSIVE skip_comment(_)
skip_comment(sc) ==
    IF peek(sc) = NoChar \/ peek(sc) = "\n"
    THEN sc
    ELSE skip_comment(bump_current_by(sc, 1))

RECURSIVE skip_whitespace(_)
skip_whitespace(sc) ==
    LET c == peek(sc) IN
    IF c = NoChar THEN sc
    ELSE IF c \in {" ", "\r", "\t"} THEN skip_whitespace(bump_current_by(sc, 1))
    ELSE IF c = "\n"
         THEN skip_whitespace(bump_current_by([sc EXCEPT !.line = @ + 1], 1))
    ELSE IF c = "/"
         THEN IF peek_next(sc) = "/"
              THEN skip_whitespace(skip_comment(bump_current_by(sc, 2)))
              ELSE sc
    ELSE sc

\* Scanner::string: the result is the scanner and the token.
RECURSIVE scanner_string(_)
scanner_string(sc) ==
    LET c == peek(sc) IN
    IF c = NoChar
    THEN [sc |-> sc, tok |-> error_token(sc, UnterminatedString)]
    ELSE IF c = "\""
         THEN LET closed == bump_current_by(sc, 1)
              IN  [sc |-> closed, tok |-> make_token(closed, "String")]
    ELSE IF c = "\n"
         THEN scanner_string(bump_current_by([sc EXCEPT !.line = @ + 1], 1))
    ELSE scanner_string(bump_current_by(sc, 1))

RECURSIVE consume_digits(_)
consume_digits(sc) ==
    IF peek(sc) = NoChar \/ ~is_ascii_digit(peek(sc))
    THEN sc
    ELSE consume_digits(bump_current_by(sc, 1))

\* Scanner::number with the fault of taking the dot whatever follows it: the
\* fault C30_DotInsideNumber is to detect.
scanner_number_greedy(sc) ==
    LET whole == consume_digits(sc)
        done  == IF peek(whole) = "."
                 THEN consume_digits(bump_current_by(whole, 1))
                 ELSE whole
    IN  [sc |-> done, tok |-> make_token(done, "Number")]

scanner_number(sc) ==
    LET whole == consume_digits(sc)
        done  == IF peek(whole) = "." /\ is_ascii_digit(peek_next(whole))
                 THEN consume_digits(bump_current_by(whole, 1))
                 ELSE whole
    IN  [sc |-> done, tok |-> make_token(done, "Number")]

identifier_type(lexeme) ==
    CASE lexeme = <<"a", "n", "d">> -> "And"
      [] lexeme = <<"c", "l", "a", "s", "s">> -> "Class"
      [] lexeme = <<"e", "l", "s", "e">> -> "Else"
      [] lexeme = <<"f", "a", "l", "s", "e">> -> "False"
      [] lexeme = <<"f", "o", "r">> -> "For"
      [] lexeme = <<"f", "u", "n">> -> "Fun"
      [] lexeme = <<"i", "f">> -> "If"
      [] lexeme = <<"n", "i", "l">> -> "Nil"
      [] lexeme = <<"o", "r">> -> "Or"
      [] lexeme = <<"p", "r", "i", "n", "t">> -> "Print"
      [] lexeme = <<"r", "e", "t", "u", "r", "n">> -> "Return"
      [] lexeme = <<"s", "u", "p", "e", "r">> -> "Super"
      [] lexeme = <<"t", "h", "i", "s">> -> "This"
      [] lexeme = <<"t", "r", "u", "e">> -> "True"
      [] lexeme = <<"v", "a", "r">> -> "Var"
      [] lexeme = <<"w", "h", "i", "l", "e">> -> "While"
      [] OTHER -> "Identifier"

RECURSIVE scanner_identifier(_)
scanner_identifier(sc) ==
    IF peek(sc) # NoChar /\ (is_alpha(peek(sc)) \/ is_ascii_digit(peek(sc)))
    THEN scanner_identifier(bump_current_by(sc, 1))
    ELSE [sc |-> sc, tok |-> make_token(sc, identifier_type(slice_to(sc)))]

\* The one- or two-character operators: the token with '=' after c, and without.
TwoCharToken(c) ==
    CASE c = "!" -> <<"BangEqual", "Bang">>
      [] c = "=" -> <<"EqualEqual", "Equal">>
      [] c = "<" -> <<"LessEqual", "Less">>
      [] c = ">" -> <<"GreaterEqual", "Greater">>

SingleCharToken(c) ==
    CASE c = "(" -> "LeftParen"
      [] c = ")" -> "RightParen"
      [] c = "{" -> "LeftBrace"
      [] c = "}" -> "RightBrace"
      [] c = ";" -> "Semicolon"
      [] c = "," -> "Comma"
      [] c = "." -> "Dot"
      [] c = "-" -> "Minus"
      [] c = "+" -> "Plus"
      [] c = "/" -> "Slash"
      [] c = "*" -> "Star"

\* Scanner::scan_token: the scanner after the call, and the token returned.
scan_token(sc0) ==
    LET lexeme(sc) ==
            IF is_at_end(sc)
            THEN [sc |-> sc, tok |-> make_token(sc, "Eof")]
            ELSE
                LET c  == peek(sc)
                    s1 == bump_current_by(sc, 1)     \* self.advance()
                IN
                IF c \in {"(", ")", "{", "}", ";", ",", ".", "-", "+", "/", "*"}
                THEN [sc |-> s1, tok |-> make_token(s1, SingleCharToken(c))]
                ELSE IF c \in {"!", "=", "<", ">"}
                THEN IF scanner_match(s1, "=")
                     THEN LET s2 == bump_current_by(s1, 1)
                          IN  [sc |-> s2, tok |-> make_token(s2, TwoCharToken(c)[1])]
                     ELSE [sc |-> s1, tok |-> make_token(s1, TwoCharToken(c)[2])]
                ELSE IF c = "\"" THEN scanner_string(s1)
                ELSE IF is_ascii_digit(c) THEN scanner_number(s1)
                ELSE IF is_alpha(c) THEN scanner_identifier(s1)
                ELSE [sc |-> s1, tok |-> error_token(s1, UnexpectedCharacter)]
        \* self.start = self.current, after the whitespace
        from(ws) == lexeme([ws EXCEPT !.start = ws.current])
    IN  from(skip_whitespace(sc0))

(***************************************************************************)
(* f64.  A number is NaN, an infinity, or a finite value in sign and      *)
(* magnitude, the magnitude an exact fraction n/d in lowest terms (zero   *)
(* has a sign, as in IEEE-754).  Rounding and overflow are outside the    *)
(* model: the programs checked stay within exactly representable values.  *)
(***************************************************************************)

RECURSIVE Gcd(_, _)
Gcd(a, b) == IF b = 0 THEN a ELSE Gcd(b, a % b)

Fin(neg, n, d) ==
    LET g == Gcd(n, d)
    IN  [k |-> "fin", neg |-> neg, n |-> n \div g, d |-> d \div g]

Inf(neg) == [k |-> "inf", neg |-> neg, n |-> 1, d |-> 0]

NaN == [k |-> "nan", neg |-> FALSE, n |-> 0, d |-> 0]

IsZero(x) == x.k = "fin" /\ x.n = 0

\* The numerator of a finite value, with its sign.
Signed(x) == IF x.neg THEN 0 - x.n ELSE x.n

Abs(i) == IF i < 0 THEN 0 - i ELSE i

F64Neg(x) == IF x.k = "nan" THEN x ELSE [x EXCEPT !.neg = ~@]

F64Add(a, b) ==
    IF a.k = "nan" \/ b.k = "nan" THEN NaN
    ELSE IF a.k = "inf" /\ b.k = "inf"
         THEN IF a.neg = b.neg THEN a ELSE NaN
    ELSE IF a.k = "inf" THEN a
    ELSE IF b.k = "inf" THEN b
    ELSE LET s == Signed(a) * b.d + Signed(b) * a.d
         IN  IF s = 0
             THEN Fin(IsZero(a) /\ IsZero(b) /\ a.neg /\ b.neg, 0, 1)
             ELSE Fin(s < 0, Abs(s), a.d * b.d)

F64Sub(a, b) == F64Add(a, F64Neg(b))

F64Mul(a, b) ==
    IF a.k = "nan" \/ b.k = "nan" THEN NaN
    ELSE IF a.k = "inf" \/ b.k = "inf"
         THEN IF IsZero(a) \/ IsZero(b) THEN NaN ELSE Inf(a.neg # b.neg)
    ELSE Fin(a.neg # b.neg, a.n * b.n, a.d * b.d)

F64Div(a, b) ==
    IF a.k = "nan" \/ b.k = "nan" THEN NaN
    ELSE IF a.k = "inf"
         THEN IF b.k = "inf" THEN NaN ELSE Inf(a.neg # b.neg)
    ELSE IF b.k = "inf" THEN Fin(a.neg # b.neg, 0, 1)
    ELSE IF IsZero(b)
         THEN IF IsZero(a) THEN NaN ELSE Inf(a.neg # b.neg)
    ELSE Fin(a.neg # b.neg, a.n * b.d, a.d * b.n)

\* f64's ==
F64Eq(a, b) ==
    IF a.k = "nan" \/ b.k = "nan" THEN FALSE
    ELSE IF a.k = "inf" \/ b.k = "inf" THEN a.k = b.k /\ a.neg = b.neg
    ELSE Signed(a) * b.d = Signed(b) * a.d

\* f64's partial_cmp: "Less", "Equal", "Greater", or "None" with a NaN.
F64PartialCmp(a, b) ==
    IF a.k = "nan" \/ b.k = "nan" THEN "None"
    ELSE IF F64Eq(a, b) THEN "Equal"
    ELSE IF a.k = "inf" THEN (IF a.neg THEN "Less" ELSE "Greater")
    ELSE IF b.k = "inf" THEN (IF b.neg THEN "Greater" ELSE "Less")
    ELSE IF Signed(a) * b.d < Signed(b) * a.d THEN "Less" ELSE "Greater"

\* str::parse::<f64> of a Number lexeme: digits, then maybe '.' and digits.
\* n / d is the value of the characters read, frac whether the '.' is behind.
RECURSIVE ParseDigits(_, _, _, _)
ParseDigits(lexeme, n, d, frac) ==
    IF lexeme = <<>> THEN Fin(FALSE, n, d)
    ELSE IF Head(lexeme) = "." THEN ParseDigits(Tail(lexeme), n, d, TRUE)
    ELSE ParseDigits(Tail(lexeme), n * 10 + DigitValue(Head(lexeme)),
                     IF frac THEN d * 10 ELSE d, frac)

ParseF64(lexeme) == ParseDigits(lexeme, 0, 1, FALSE)

(***************************************************************************)
(* Values (value.rs) and interned strings (string.rs)                      *)
(***************************************************************************)

\* LoxString: ptr is the address self.string.as_ptr() gives, chars the content.
LoxString(ptr, chars) == [ptr |-> ptr, chars |-> chars]

\* PartialEq for LoxString: the addresses are compared, not the contents.
LoxStringEq(a, b) == a.ptr = b.ptr

BoolV(b) == [type |-> "Bool", b |-> b]

NilV == [type |-> "Nil"]

NumberV(x) == [type |-> "Number", n |-> x]

\* Value::Obj(Box::new(Object::Str(s)))
ObjStrV(s) == [type |-> "Obj", str |-> s]

\* ValueEq with the fault of taking nil and false for equal: the fault
\* C21_EqualIsStructural is to detect.
ValueEq_falsey(a, b) ==
    IF a.type = "Bool" /\ b.type = "Bool" THEN a.b = b.b
    ELSE IF a.type = "Number" /\ b.type = "Number" THEN F64Eq(a.n, b.n)
    ELSE IF a.type = "Obj" /\ b.type = "Obj" THEN LoxStringEq(a.str, b.str)
    ELSE a.type \in {"Nil", "Bool"} /\ b.type \in {"Nil", "Bool"}

ValueEq(a, b) ==
    IF a.type = "Bool" /\ b.type = "Bool" THEN a.b = b.b
    ELSE IF a.type = "Number" /\ b.type = "Number" THEN F64Eq(a.n, b.n)
    ELSE IF a.type = "Obj" /\ b.type = "Obj" THEN LoxStringEq(a.str, b.str)
    ELSE a.type = b.type

value_partial_cmp(a, b) ==
    IF a.type = "Number" /\ b.type = "Number"
    THEN F64PartialCmp(a.n, b.n)
    ELSE "None"

\* is_falsey with the fault of taking the number 0 for falsey: the fault
\* C20_OneFalsinessRule is to detect.
is_falsey_zero(v) ==
    CASE v.type = "Bool" -> ~v.b
      [] v.type = "Nil" -> TRUE
      [] v.type = "Number" -> IsZero(v.n)
      [] v.type = "Obj" -> FALSE

is_falsey(v) ==
    CASE v.type = "Bool" -> ~v.b
      [] v.type = "Nil" -> TRUE
      [] v.type = "Number" -> FALSE
      [] v.type = "Obj" -> FALSE

value_not(v) == BoolV(is_falsey(v))

\* intern_string with the fault of returning the new allocation when the table
\* has the content already: the fault C6_InterningCanonical is to detect.
intern_string_fresh(v, chars) ==
    LET fresh == LoxString(Cardinality(DOMAIN v.strings), chars)
    IN  IF chars \in DOMAIN v.strings
        THEN [vm |-> v, str |-> fresh]
        ELSE [vm  |-> [v EXCEPT !.strings = @ @@ (chars :> fresh)],
              str |-> fresh]

\* Vm::intern_string: the Vm after the call and the LoxString returned.  Rc::new
\* gives the text an address no live string has; the table keeps the entry it
\* already has for that content.
intern_string(v, chars) ==
    IF chars \in DOMAIN v.strings
    THEN [vm |-> v, str |-> v.strings[chars]]
    ELSE LET fresh == LoxString(Cardinality(DOMAIN v.strings), chars)
         IN  [vm  |-> [v EXCEPT !.strings = @ @@ (chars :> fresh)],
              str |-> fresh]

\* LoxString::copy_string
copy_string(v, chars) == intern_string(v, chars)

\* lox_string_add with the fault of b before a: the fault C22_AddNumbersOrStrings
\* is to detect.
lox_string_add_reversed(v, a, b) == intern_string(v, b.chars \o a.chars)

\* LoxString::add, through take_string
lox_string_add(v, a, b) == intern_string(v, a.chars \o b.chars)

(***************************************************************************)
(* Chunk (chunk.rs)                                                        *)
(***************************************************************************)

\* The enum of chunk.rs, and the Loop that vm.rs:155 and debug.rs:37 decode.
OpCode ==
    [Return |-> 0, Constant |-> 1, Negate |-> 2, Add |-> 3, Subtract |-> 4,
     Multiply |-> 5, Divide |-> 6, Nil |-> 7, True |-> 8, False |-> 9,
     Not |-> 10, Equal |-> 11, Greater |-> 12, Less |-> 13,
     Pop |-> 15, DefineGlobal |-> 16, GetGlobal |-> 17, SetGlobal |-> 18,
     GetLocal |-> 19, SetLocal |-> 20, JumpIfFalse |-> 21, Jump |-> 22,
     Loop |-> 23] @@ ("Print" :> 14)

ChunkNew == [code |-> <<>>, constants |-> <<>>, lines |-> <<>>]

\* write_byte with the fault of recording a line only when it differs from the
\* last one recorded: the fault C13_LinesParallelCode is to detect.
write_byte_runs(chunk, byte, line) ==
    [chunk EXCEPT !.code = Append(@, byte),
                  !.lines = IF @ # <<>> /\ @[Len(@)] = line THEN @ ELSE Append(@, line)]

write_byte(chunk, byte, line) ==
    [chunk EXCEPT !.code = Append(@, byte), !.lines = Append(@, line)]

write_opcode(chunk, opcode, line) == write_byte(chunk, opcode, line)

\* Chunk::add_constant; the index it returns is Len(constants) - 1 afterwards.
add_constant(chunk, constant) == [chunk EXCEPT !.constants = Append(@, constant)]

(***************************************************************************)
(* Compiler (compiler.rs).  The operators below take and return the       *)
(* environment a compile works on: e.c the Compiler struct, e.vm the Vm   *)
(* it borrows (its field vm), e.err the standard error stream.            *)
(***************************************************************************)

\* u8::MAX
U8_MAX == 255

UINT8_COUNT == U8_MAX + 1

Precedence ==
    [None |-> 0, Assignment |-> 1, Or |-> 2, And |-> 3, Equality |-> 4,
     Comparison |-> 5, Term |-> 6, Factor |-> 7, Unary |-> 8, Call |-> 9,
     Primary |-> 10]

\* higher with the fault of giving the same precedence, which makes the binary
\* operators right-associative: the fault C18_PostfixOfLadder is to detect.
higher_same(precedence) == precedence

\* Precedence::higher
higher(precedence) == precedence + 1

ParseRule(prefix, infix, precedence) ==
    [prefix |-> prefix, infix |-> infix, precedence |-> precedence]

\* The parse functions are named; "None" is Option::None.
RULE_TABLE ==
    [LeftParen    |-> ParseRule("grouping", "None", Precedence.None),
     RightParen   |-> ParseRule("None", "None", Precedence.None),
     LeftBrace    |-> ParseRule("None", "None", Precedence.None),
     RightBrace   |-> ParseRule("None", "None", Precedence.None),
     Comma        |-> ParseRule("None", "None", Precedence.None),
     Dot          |-> ParseRule("None", "None", Precedence.None),
     Minus        |-> ParseRule("unary", "binary", Precedence.Term),
     Plus         |-> ParseRule("None", "binary", Precedence.Term),
     Semicolon    |-> ParseRule("None", "None", Precedence.None),
     Slash        |-> ParseRule("None", "binary", Precedence.Factor),
     Star         |-> ParseRule("None", "binary", Precedence.Factor),
     Bang         |-> ParseRule("unary", "None", Precedence.None),
     BangEqual    |-> ParseRule("binary", "binary", Precedence.Equality),
     Equal        |-> ParseRule("None", "None", Precedence.None),
     EqualEqual   |-> ParseRule("binary", "binary", Precedence.Equality),
     Greater      |-> ParseRule("binary", "binary", Precedence.Comparison),
     GreaterEqual |-> ParseRule("binary", "binary", Precedence.Comparison),
     Less         |-> ParseRule("binary", "binary", Precedence.Comparison),
     LessEqual    |-> ParseRule("binary", "binary", Precedence.Comparison),
     Identifier   |-> ParseRule("variable", "None", Precedence.None),
     String       |-> ParseRule("string", "None", Precedence.None),
     Number       |-> ParseRule("number", "None", Precedence.None),
     And          |-> ParseRule("None", "None", Precedence.None),
     Class        |-> ParseRule("None", "None", Precedence.None),
     Else         |-> ParseRule("None", "None", Precedence.None),
     False        |-> ParseRule("literal", "None", Precedence.None),
     Fun          |-> ParseRule("None", "None", Precedence.None),
     For          |-> ParseRule("None", "None", Precedence.None),
     If           |-> ParseRule("None", "None", Precedence.None),
     Nil          |-> ParseRule("literal", "None", Precedence.None),
     Or           |-> ParseRule("None", "None", Precedence.None),
     Return       |-> ParseRule("None", "None", Precedence.None),
     Super        |-> ParseRule("None", "None", Precedence.None),
     This         |-> ParseRule("None", "None", Precedence.None),
     True         |-> ParseRule("literal", "None", Precedence.None),
     Var          |-> ParseRule("None", "None", Precedence.None),
     While        |-> ParseRule("None", "None", Precedence.None),
     Error        |-> ParseRule("None", "None", Precedence.None),
     Eof          |-> ParseRule("None", "None", Precedence.None)]
    @@ ("Print" :> ParseRule("None", "None", Precedence.None))

get_parse_rule(token_type) == RULE_TABLE[token_type]

\* Option::None of Compiler.current and Compiler.previous.
NoToken == [token_type |-> "None", lexeme |-> <<>>, line |-> 0]

\* Option::None of Local.depth.
NoDepth == -1

LocalNew(name) == [name |-> name, depth |-> NoDepth]

LocalsNew == [locals |-> <<>>, scope_depth |-> 0]

CompilerNew(src) ==
    [scanner         |-> ScannerNew(src),
     current         |-> NoToken,
     previous        |-> NoToken,
     had_error       |-> FALSE,
     panic_mode      |-> FALSE,
     compiling_chunk |-> ChunkNew,
     locals          |-> LocalsNew]

\* Token::identifiers_equal
identifiers_equal(a, b) == a.lexeme = b.lexeme

\* One compile diagnostic: "[line L] Error<at>: <msg>".
Diagnostic(token, message) ==
    [kind |-> "compile",
     line |-> token.line,
     at   |-> CASE token.token_type = "Eof" -> <<" at end">>
                [] token.token_type = "Error" -> <<>>
                [] OTHER -> <<" at ">> \o token.lexeme,
     msg  |-> message]

\* error_at with the fault of not looking at panic_mode: the fault
\* C15_PanicSuppresses is to detect.
error_at_always(e, token, message) ==
    [e EXCEPT !.c.panic_mode = TRUE,
              !.c.had_error = TRUE,
              !.err = Append(@, Diagnostic(token, message))]

error_at(e, token, message) ==
    IF e.c.panic_mode
    THEN e
    ELSE [e EXCEPT !.c.panic_mode = TRUE,
                   !.c.had_error = TRUE,
                   !.err = Append(@, Diagnostic(token, message))]

error_at_current(e, message) ==
    [error_at(e, e.c.current, message) EXCEPT !.c.had_error = TRUE]

error(e, message) ==
    [error_at(e, e.c.previous, message) EXCEPT !.c.had_error = TRUE]

\* The loop of advance with the fault of breaking at an Error token too: the
\* fault C31_ErrorTokensSkipped is to detect.
advance_loop_once(e) ==
    LET scanned(r) ==
            LET e1 == [e EXCEPT !.c.scanner = r.sc, !.c.current = r.tok]
            IN  IF r.tok.token_type = "Error"
                THEN error_at_current(e1, r.tok.lexeme)
                ELSE e1
    IN  scanned(scan_token(e.c.scanner))

\* The loop of advance: scan until a token is not an Error token.
RECURSIVE advance_loop(_)
advance_loop(e) ==
    LET scanned(r) ==
            LET e1 == [e EXCEPT !.c.scanner = r.sc, !.c.current = r.tok]
            IN  IF r.tok.token_type = "Error"
                THEN advance_loop(error_at_current(e1, r.tok.lexeme))
                ELSE e1
    IN  scanned(scan_token(e.c.scanner))

advance(e) ==
    advance_loop([e EXCEPT !.c.previous = e.c.current, !.c.current = NoToken])

check(e, token_type) == e.c.current.token_type = token_type

check_previous(e, token_type) == e.c.previous.token_type = token_type

consume(e, expected, message) ==
    IF check(e, expected) THEN advance(e) ELSE error_at_current(e, message)

\* Compiler::match_: the environment after the call; it returns check(e, t).
match_(e, token_type) == IF check(e, token_type) THEN advance(e) ELSE e

emit_byte(e, byte) ==
    [e EXCEPT !.c.compiling_chunk = write_byte(@, byte, e.c.previous.line)]

emit_opcode(e, opcode) ==
    [e EXCEPT !.c.compiling_chunk = write_opcode(@, opcode, e.c.previous.line)]

emit_opcodes(e, opcode1, opcode2) == emit_opcode(emit_opcode(e, opcode1), opcode2)

emit_return(e) == emit_opcode(e, OpCode.Return)

\* end_compiler with the fault of emitting nothing: the fault
\* C32_RunReachesReturn is to detect.
end_compiler_bare(e) == e

end_compiler(e) == emit_return(e)

\* make_constant with the fault of a limit one too high: the fault
\* C11_ConstantIndexFits is to detect.
make_constant_late(e, value) ==
    LET constant == Len(e.c.compiling_chunk.constants)
        e1 == [e EXCEPT !.c.compiling_chunk = add_constant(@, value)]
    IN  IF constant > U8_MAX + 1
        THEN [e |-> error(e1, <<"Too many constants in one chunk.">>), byte |-> 0]
        ELSE [e |-> e1, byte |-> constant]

\* Compiler::make_constant: the environment after the call and the u8 returned.
make_constant(e, value) ==
    LET constant == Len(e.c.compiling_chunk.constants)
        e1 == [e EXCEPT !.c.compiling_chunk = add_constant(@, value)]
    IN  IF constant > U8_MAX
        THEN [e |-> error(e1, <<"Too many constants in one chunk.">>), byte |-> 0]
        ELSE [e |-> e1, byte |-> constant]

emit_constant(e, value) ==
    LET r == make_constant(emit_opcode(e, OpCode.Constant), value)
    IN  emit_byte(r.e, r.byte)

identifier_constant(e, name) ==
    LET r == copy_string(e.vm, name.lexeme)
    IN  make_constant([e EXCEPT !.vm = r.vm], ObjStrV(r.str))

begin_scope(e) == [e EXCEPT !.c.locals.scope_depth = @ + 1]

\* The last index in lo..hi at which flags is TRUE, 0 when there is none: where
\* a loop over .rev() that stops at the first match stops.
RECURSIVE LastTrue(_, _, _)
LastTrue(flags, lo, hi) ==
    IF lo > hi THEN 0
    ELSE IF lo = hi THEN (IF flags[lo] THEN lo ELSE 0)
    ELSE LET upper == LastTrue(flags, (lo + hi) \div 2 + 1, hi)
         IN  IF upper # 0 THEN upper ELSE LastTrue(flags, lo, (lo + hi) \div 2)

\* n passes of the body of the loop of end_scope.
RECURSIVE pop_locals(_, _)
pop_locals(e, n) ==
    IF e.c.locals.locals = <<>> \/ n = 0 THEN e
    ELSE IF n = 1
    THEN [emit_opcode(e, OpCode.Pop)
             EXCEPT !.c.locals.locals = SubSeq(@, 1, Len(@) - 1)]
    ELSE pop_locals(pop_locals(e, n \div 2), n - n \div 2)

\* end_scope_loop with the fault of popping nothing: the fault
\* C14_DepthsOrdered is to detect.
end_scope_loop_none(e) == e

\* The loop of end_scope: it breaks at the topmost local whose depth is None or
\* below scope_depth, and pops every local above that one.
end_scope_loop(e) ==
    LET ls == e.c.locals.locals
        parent == LastTrue([i \in DOMAIN ls |->
                               \/ ls[i].depth = NoDepth
                               \/ ls[i].depth < e.c.locals.scope_depth],
                           1, Len(ls))
    IN  pop_locals(e, Len(ls) - parent)

end_scope(e) == end_scope_loop([e EXCEPT !.c.locals.scope_depth = @ - 1])

\* add_is_err with the fault of a limit one too high: the fault
\* C12_LocalsBounded is to detect.
add_is_err_late(locals) == Len(locals.locals) = UINT8_COUNT + 1

\* Locals::add: the locals after the call; it fails when they are full.
add_is_err(locals) == Len(locals.locals) = UINT8_COUNT

add(locals, name) ==
    IF add_is_err(locals)
    THEN locals
    ELSE [locals EXCEPT !.locals = Append(@, LocalNew(name))]

\* Locals::contains_in_current_scope, from index i down: the loop breaks at the
\* topmost local of a depth below scope_depth, and looks at every local above it.
contains_from(locals, name, i) ==
    LET ls == locals.locals
        parent == LastTrue([j \in 1..i |->
                               /\ ls[j].depth # NoDepth
                               /\ ls[j].depth < locals.scope_depth],
                           1, i)
    IN  \E j \in (parent + 1)..i : identifiers_equal(ls[j].name, name)

contains_in_current_scope(locals, name) ==
    contains_from(locals, name, Len(locals.locals))

\* resolve_from with the fault of taking a local whose depth is None: the fault
\* C10_OwnInitializer is to detect.
resolve_from_any(locals, name, i) ==
    LET found(at) ==
            IF at = 0 THEN [kind |-> "NotFound", slot |-> 0]
            ELSE [kind |-> "Ok", slot |-> (at - 1) % UINT8_COUNT]
    IN  found(LastTrue([j \in 1..i |-> identifiers_equal(locals.locals[j].name, name)],
                       1, i))

\* resolve_from with the fault of the slot above: the fault C26_LocalsMirrorStack
\* is to detect.
resolve_from_next(locals, name, i) ==
    LET found(at) ==
            IF at = 0 THEN [kind |-> "NotFound", slot |-> 0]
            ELSE IF locals.locals[at].depth = NoDepth
                 THEN [kind |-> "Uninitialized", slot |-> 0]
                 ELSE [kind |-> "Ok", slot |-> at % UINT8_COUNT]
    IN  found(LastTrue([j \in 1..i |-> identifiers_equal(locals.locals[j].name, name)],
                       1, i))

\* Locals::resolve_local, from index i down: the topmost local of that name
\* decides (at - 1 is the slot of locals[at]).
resolve_from(locals, name, i) ==
    LET found(at) ==
            IF at = 0 THEN [kind |-> "NotFound", slot |-> 0]
            ELSE IF locals.locals[at].depth = NoDepth
                 THEN [kind |-> "Uninitialized", slot |-> 0]
                 ELSE [kind |-> "Ok", slot |-> (at - 1) % UINT8_COUNT]
    IN  found(LastTrue([j \in 1..i |-> identifiers_equal(locals.locals[j].name, name)],
                       1, i))

resolve_local(locals, name) == resolve_from(locals, name, Len(locals.locals))

mark_initialized(locals) ==
    [locals EXCEPT !.locals[Len(locals.locals)].depth = locals.scope_depth]

declare_variable(e) ==
    IF e.c.locals.scope_depth = 0 THEN e
    ELSE LET name == e.c.previous
             e1 == IF contains_in_current_scope(e.c.locals, name)
                   THEN error(e, <<"Already a variable with this name in this scope.">>)
                   ELSE e
         IN  IF add_is_err(e1.c.locals)
             THEN error(e1, <<"Too many local variables in function.">>)
             ELSE [e1 EXCEPT !.c.locals = add(@, name)]

\* Compiler::parse_variable: the environment after the call and the u8 returned.
parse_variable(e, error_message) ==
    LET declared(e1) ==
            IF e1.c.locals.scope_depth > 0
            THEN [e |-> e1, byte |-> 0]
            ELSE identifier_constant(e1, e1.c.previous)
    IN  declared(declare_variable(consume(e, "Identifier", error_message)))

define_variable(e, global) ==
    IF e.c.locals.scope_depth > 0
    THEN [e EXCEPT !.c.locals = mark_initialized(@)]
    ELSE emit_byte(emit_opcode(e, OpCode.DefineGlobal), global)

(***************************************************************************)
(* The block structure of the source text, read off its tokens alone: the  *)
(* reference the compiler's locals are compared with.                      *)
(***************************************************************************)

\* A reading of the text up to an offset: the scanner, the type of the last token
\* read, the blocks open after it, innermost last (of each, the names declared in
\* it so far, an identifier after var, in order), and whether the offset is reached.
ReadingNew(src) ==
    [sc |-> ScannerNew(src), last |-> "None", blocks |-> <<>>, done |-> FALSE]

\* The reading after one more token; Error tokens are passed over.
ReadToken(rd, limit) ==
    LET scanned(r) ==
            LET t == r.tok.token_type IN
            IF t = "Eof" \/ r.sc.start >= limit THEN [rd EXCEPT !.done = TRUE]
            ELSE IF t = "Error" THEN [rd EXCEPT !.sc = r.sc]
            ELSE [sc     |-> r.sc,
                  last   |-> t,
                  done   |-> FALSE,
                  blocks |->
                      IF t = "LeftBrace" THEN Append(rd.blocks, <<>>)
                      ELSE IF t = "RightBrace"
                      THEN IF rd.blocks = <<>> THEN rd.blocks
                           ELSE SubSeq(rd.blocks, 1, Len(rd.blocks) - 1)
                      ELSE IF t = "Identifier" /\ rd.last = "Var" /\ rd.blocks # <<>>
                      THEN [rd.blocks EXCEPT ![Len(rd.blocks)] = Append(@, r.tok.lexeme)]
                      ELSE rd.blocks]
    IN  scanned(scan_token(rd.sc))

\* A text has fewer than 2^MaxDoublings tokens.
MaxDoublings == 10

\* The reading after up to 2^k more tokens.
RECURSIVE ReadTokens(_, _, _)
ReadTokens(rd, limit, k) ==
    IF rd.done THEN rd
    ELSE IF k = 0 THEN ReadToken(rd, limit)
    ELSE ReadTokens(ReadTokens(rd, limit, k - 1), limit, k - 1)

\* The reading up to where the compiler's current token starts, taken up from
\* the reading of the last statement boundary.
ReadingHere ==
    ReadTokens([boundaries.reading EXCEPT !.done = FALSE, !.sc = Scanning(@, source)],
               compiler.scanner.start, MaxDoublings)

\* The blocks open where the compiler's current token starts.
BlocksHere == ReadingHere.blocks

RECURSIVE Flatten(_)
Flatten(blocks) ==
    IF blocks = <<>> THEN <<>> ELSE Head(blocks) \o Flatten(Tail(blocks))

\* The names of the locals in scope where the current token starts, oldest first.
LocalsHere == Flatten(BlocksHere)

\* The history step taken between two statements.
NoteBoundary ==
    LET noted(rd) ==
            boundaries' =
                [reading |-> [rd EXCEPT !.sc = Offsets(@)],
                 slots   |-> boundaries.slots,
                 count   |-> LET offset == Len(compiler.compiling_chunk.code)
                             IN  [k \in DOMAIN boundaries.count \cup {offset} |->
                                     IF k = offset THEN Len(Flatten(rd.blocks))
                                     ELSE boundaries.count[k]]]
    IN  noted(ReadingHere)

\* The history of the GetLocal and SetLocal emitted: what the step appended to
\* the chunk, when it is one of them, is noted with the compiler's locals.
NoteSlot ==
    LET offset == Len(compiler.compiling_chunk.code)
        code == compiler'.compiling_chunk.code
        initialized == Cardinality({i \in DOMAIN compiler.locals.locals :
                                       compiler.locals.locals[i].depth # NoDepth})
    IN  boundaries' =
            IF Len(code) = offset + 2 /\ code[offset + 1] \in {OpCode.GetLocal, OpCode.SetLocal}
            THEN [boundaries EXCEPT !.slots =
                     [k \in DOMAIN @ \cup {offset} |->
                         IF k = offset THEN initialized ELSE @[k]]]
            ELSE boundaries

(***************************************************************************)
(* The compile, one function of compiler.rs per action.  A frame is the   *)
(* activation of one function: pc counts the recursive calls it has made, *)
(* the other fields are its parameters and locals.                        *)
(***************************************************************************)

Call(fn, precedence, can_assign) ==
    [fn |-> fn, pc |-> 0, precedence |-> precedence, can_assign |-> can_assign,
     operator_type |-> "None", arg |-> 0, set_op |-> 0]

Top == frames[Len(frames)]

Running(fn) == phase = "compile" /\ frames # <<>> /\ Top.fn = fn

\* The frames after the running function returns.
Returned == SubSeq(frames, 1, Len(frames) - 1)

\* The frames after the running function moves to pc.
At(pc) == [frames EXCEPT ![Len(frames)].pc = pc]

Env ==
    [c   |-> [compiler EXCEPT !.scanner = Scanning(@, source)],
     vm  |-> vm,
     err |-> stderr]

Commit(e) ==
    /\ compiler' = [e.c EXCEPT !.scanner = Offsets(@)]
    /\ vm' = e.vm
    /\ stderr' = e.err

\* Compiler::expression
expression == Call("parse_precedence", Precedence.Assignment, FALSE)

compile ==
    /\ Running("compile")
    /\ \/ /\ Top.pc = 0
          /\ Commit(advance(Env))
          /\ frames' = At(1)
          /\ phase' = phase
       \/ /\ Top.pc = 1
          /\ IF check(Env, "Eof")
             THEN Commit(advance(Env)) /\ frames' = At(2)
             ELSE Commit(Env) /\ frames' = Append(frames, Call("declaration", 0, FALSE))
          /\ phase' = phase
       \/ /\ Top.pc = 2
          /\ Commit(end_compiler(Env))
          /\ frames' = <<>>
          /\ phase' = "compiled"
    /\ IF Top.pc = 1 THEN NoteBoundary ELSE UNCHANGED boundaries
    /\ UNCHANGED <<args, stdin, buffer, source, stdout, result, exit_code>>

declaration ==
    /\ Running("declaration")
    /\ \/ /\ Top.pc = 0
          /\ Commit(match_(Env, "Var"))
          /\ frames' = Append(At(1),
                 Call(IF check(Env, "Var") THEN "variable_declaration" ELSE "statement",
                      0, FALSE))
       \/ /\ Top.pc = 1
          /\ Commit(Env)
          /\ frames' = IF compiler.panic_mode
                       THEN Append(Returned, Call("synchronize", 0, FALSE))
                       ELSE Returned
    /\ IF Top.pc = 0 THEN NoteBoundary ELSE UNCHANGED boundaries
    /\ UNCHANGED <<args, stdin, buffer, source, phase, stdout, result, exit_code>>

statement ==
    /\ Running("statement")
    /\ \/ /\ Top.pc = 0
          /\ IF check(Env, "Print")
             THEN /\ Commit(advance(Env))
                  /\ frames' = Append(Returned, Call("print_statement", 0, FALSE))
             ELSE IF check(Env, "LeftBrace")
             THEN /\ Commit(begin_scope(advance(Env)))
                  /\ frames' = Append(At(1), Call("block", 0, FALSE))
             ELSE /\ Commit(Env)
                  /\ frames' = Append(Returned, Call("expression_statement", 0, FALSE))
       \/ /\ Top.pc = 1
          /\ Commit(end_scope(Env))
          /\ frames' = Returned
    /\ UNCHANGED <<args, stdin, buffer, source, boundaries, phase, stdout, result, exit_code>>

print_statement ==
    /\ Running("print_statement")
    /\ \/ /\ Top.pc = 0
          /\ Commit(Env)
          /\ frames' = Append(At(1), expression)
       \/ /\ Top.pc = 1
          /\ Commit(emit_opcode(consume(Env, "Semicolon", <<"Expect ';' after value.">>),
                                OpCode["Print"]))
          /\ frames' = Returned
    /\ UNCHANGED <<args, stdin, buffer, source, boundaries, phase, stdout, result, exit_code>>

expression_statement ==
    /\ Running("expression_statement")
    /\ \/ /\ Top.pc = 0
          /\ Commit(Env)
          /\ frames' = Append(At(1), expression)
       \/ /\ Top.pc = 1
          /\ Commit(emit_opcode(consume(Env, "Semicolon", <<"Expect ';' after value.">>),
                                OpCode.Pop))
          /\ frames' = Returned
    /\ UNCHANGED <<args, stdin, buffer, source, boundaries, phase, stdout, result, exit_code>>

block ==
    /\ Running("block")
    /\ IF ~check(Env, "RightBrace") /\ ~check(Env, "Eof")
       THEN /\ Commit(Env)
            /\ frames' = Append(frames, Call("declaration", 0, FALSE))
       ELSE /\ Commit(consume(Env, "RightBrace", <<"Expect '}' after block.">>))
            /\ frames' = Returned
    /\ NoteBoundary
    /\ UNCHANGED <<args, stdin, buffer, source, phase, stdout, result, exit_code>>

variable_declaration ==
    /\ Running("variable_declaration")
    /\ \/ /\ Top.pc = 0
          /\ LET parsed(r) ==
                     LET next == [At(1) EXCEPT ![Len(frames)].arg = r.byte]
                     IN  IF check(r.e, "Equal")
                         THEN /\ Commit(advance(r.e))
                              /\ frames' = Append(next, expression)
                         ELSE /\ Commit(emit_opcode(r.e, OpCode.Nil))
                              /\ frames' = next
             IN  parsed(parse_variable(Env, <<"Expect variable name.">>))
       \/ /\ Top.pc = 1
          /\ Commit(define_variable(
                 consume(Env, "Semicolon", <<"Expect ';' after variable declaration.">>),
                 Top.arg))
          /\ frames' = Returned
    /\ UNCHANGED <<args, stdin, buffer, source, boundaries, phase, stdout, result, exit_code>>

\* The token types at which synchronize returns.
StatementStarters == {"Class", "Fun", "Var", "For", "If", "While", "Print", "Return"}

\* synchronize with the fault of clearing had_error with panic_mode: the fault
\* C16_FailureIffSignalled is to detect.
synchronize_clearing ==
    /\ Running("synchronize")
    /\ \/ /\ Top.pc = 0
          /\ Commit([Env EXCEPT !.c.panic_mode = FALSE, !.c.had_error = FALSE])
          /\ frames' = At(1)
       \/ /\ Top.pc = 1
          /\ IF ~check(Env, "Eof")
             THEN Commit(Env) /\ frames' = At(2)
             ELSE Commit(advance(Env)) /\ frames' = Returned
       \/ /\ Top.pc = 2
          /\ Commit(Env)
          /\ frames' = IF check_previous(Env, "Semicolon") THEN Returned
                       ELSE IF compiler.current.token_type \in StatementStarters
                            THEN Returned
                            ELSE At(1)
    /\ UNCHANGED <<args, stdin, buffer, source, boundaries, phase, stdout, result, exit_code>>

\* pc 0 is the entry, pc 1 the test of the while loop, pc 2 its body.
synchronize ==
    /\ Running("synchronize")
    /\ \/ /\ Top.pc = 0
          /\ Commit([Env EXCEPT !.c.panic_mode = FALSE])
          /\ frames' = At(1)
       \/ /\ Top.pc = 1
          /\ IF ~check(Env, "Eof")
             THEN Commit(Env) /\ frames' = At(2)
             ELSE Commit(advance(Env)) /\ frames' = Returned
       \/ /\ Top.pc = 2
          /\ Commit(Env)
          /\ frames' = IF check_previous(Env, "Semicolon") THEN Returned
                       ELSE IF compiler.current.token_type \in StatementStarters
                            THEN Returned
                            ELSE At(1)
    /\ UNCHANGED <<args, stdin, buffer, source, boundaries, phase, stdout, result, exit_code>>

parse_precedence ==
    /\ Running("parse_precedence")
    /\ \/ /\ Top.pc = 0
          /\ LET can_assign == Top.precedence <= Precedence.Assignment
                 prefix(e1, prefix_rule) ==
                     IF prefix_rule = "None"
                     THEN /\ Commit(error(e1, <<"Expect expression.">>))
                          /\ frames' = Returned
                     ELSE /\ Commit(e1)
                          /\ frames' = Append(
                                 [At(1) EXCEPT ![Len(frames)].can_assign = can_assign],
                                 Call(prefix_rule, 0, can_assign))
                 advanced(e1) ==
                     prefix(e1, get_parse_rule(e1.c.previous.token_type).prefix)
             IN  advanced(advance(Env))
       \/ /\ Top.pc = 1
          /\ IF Top.precedence <= get_parse_rule(compiler.current.token_type).precedence
             THEN LET infix(e1, infix_rule) ==
                          /\ Commit(e1)
                          /\ frames' = IF infix_rule # "None"
                                       THEN Append(frames,
                                                Call(infix_rule, 0, Top.can_assign))
                                       ELSE frames
                      advanced(e1) ==
                          infix(e1, get_parse_rule(e1.c.previous.token_type).infix)
                  IN  advanced(advance(Env))
             ELSE /\ Commit(IF Top.can_assign /\ check(Env, "Equal")
                            THEN error(advance(Env), <<"Invalid assignment target.">>)
                            ELSE Env)
                  /\ frames' = Returned
    /\ UNCHANGED <<args, stdin, buffer, source, boundaries, phase, stdout, result, exit_code>>

grouping ==
    /\ Running("grouping")
    /\ \/ /\ Top.pc = 0
          /\ Commit(Env)
          /\ frames' = Append(At(1), expression)
       \/ /\ Top.pc = 1
          /\ Commit(consume(Env, "RightParen", <<"Expect ')' after expression.">>))
          /\ frames' = Returned
    /\ UNCHANGED <<args, stdin, buffer, source, boundaries, phase, stdout, result, exit_code>>

\* BinaryOpcodes with the fault of no Not after the Equal of `!=`: the fault
\* C19_BangEqualNegatesEqual is to detect.
BinaryOpcodes_equal(operator_type) ==
    CASE operator_type = "Plus" -> <<OpCode.Add>>
      [] operator_type = "Minus" -> <<OpCode.Subtract>>
      [] operator_type = "Star" -> <<OpCode.Multiply>>
      [] operator_type = "Slash" -> <<OpCode.Divide>>
      [] operator_type = "BangEqual" -> <<OpCode.Equal>>
      [] operator_type = "EqualEqual" -> <<OpCode.Equal>>
      [] operator_type = "Greater" -> <<OpCode.Greater>>
      [] operator_type = "GreaterEqual" -> <<OpCode.Less, OpCode.Not>>
      [] operator_type = "Less" -> <<OpCode.Less>>
      [] operator_type = "LessEqual" -> <<OpCode.Greater, OpCode.Not>>

\* The opcodes binary emits for an operator.
BinaryOpcodes(operator_type) ==
    CASE operator_type = "Plus" -> <<OpCode.Add>>
      [] operator_type = "Minus" -> <<OpCode.Subtract>>
      [] operator_type = "Star" -> <<OpCode.Multiply>>
      [] operator_type = "Slash" -> <<OpCode.Divide>>
      [] operator_type = "BangEqual" -> <<OpCode.Equal, OpCode.Not>>
      [] operator_type = "EqualEqual" -> <<OpCode.Equal>>
      [] operator_type = "Greater" -> <<OpCode.Greater>>
      [] operator_type = "GreaterEqual" -> <<OpCode.Less, OpCode.Not>>
      [] operator_type = "Less" -> <<OpCode.Less>>
      [] operator_type = "LessEqual" -> <<OpCode.Greater, OpCode.Not>>

binary ==
    /\ Running("binary")
    /\ \/ /\ Top.pc = 0
          /\ Commit(Env)
          /\ LET operator_type == compiler.previous.token_type
                 precedence == higher(get_parse_rule(operator_type).precedence)
             IN  frames' = Append(
                     [At(1) EXCEPT ![Len(frames)].operator_type = operator_type],
                     Call("parse_precedence", precedence, FALSE))
       \/ /\ Top.pc = 1
          /\ LET ops == BinaryOpcodes(Top.operator_type)
             IN  Commit(IF Len(ops) = 1
                        THEN emit_opcode(Env, ops[1])
                        ELSE emit_opcodes(Env, ops[1], ops[2]))
          /\ frames' = Returned
    /\ UNCHANGED <<args, stdin, buffer, source, boundaries, phase, stdout, result, exit_code>>

unary ==
    /\ Running("unary")
    /\ \/ /\ Top.pc = 0
          /\ Commit(Env)
          /\ frames' = Append(
                 [At(1) EXCEPT ![Len(frames)].operator_type = compiler.previous.token_type],
                 Call("parse_precedence", Precedence.Unary, FALSE))
       \/ /\ Top.pc = 1
          /\ Commit(CASE Top.operator_type = "Minus" -> emit_opcode(Env, OpCode.Negate)
                      [] Top.operator_type = "Bang" -> emit_opcode(Env, OpCode.Not)
                      [] OTHER -> Env)
          /\ frames' = Returned
    /\ UNCHANGED <<args, stdin, buffer, source, boundaries, phase, stdout, result, exit_code>>

number ==
    /\ Running("number")
    /\ Commit(emit_constant(Env, NumberV(ParseF64(compiler.previous.lexeme))))
    /\ frames' = Returned
    /\ UNCHANGED <<args, stdin, buffer, source, boundaries, phase, stdout, result, exit_code>>

literal ==
    /\ Running("literal")
    /\ Commit(CASE compiler.previous.token_type = "False" -> emit_opcode(Env, OpCode.False)
                [] compiler.previous.token_type = "Nil" -> emit_opcode(Env, OpCode.Nil)
                [] compiler.previous.token_type = "True" -> emit_opcode(Env, OpCode.True))
    /\ frames' = Returned
    /\ UNCHANGED <<args, stdin, buffer, source, boundaries, phase, stdout, result, exit_code>>

string ==
    /\ Running("string")
    /\ LET lexeme == compiler.previous.lexeme
           r == copy_string(vm, SubSeq(lexeme, 2, Len(lexeme) - 1))
       IN  Commit(emit_constant([Env EXCEPT !.vm = r.vm], ObjStrV(r.str)))
    /\ frames' = Returned
    /\ UNCHANGED <<args, stdin, buffer, source, boundaries, phase, stdout, result, exit_code>>

\* variable and the named_variable it calls with the previous token.
named_variable ==
    /\ Running("variable")
    /\ \/ /\ Top.pc = 0
          /\ LET name == compiler.previous
                 arg == resolve_local(compiler.locals, name)
             IN  IF arg.kind = "Uninitialized"
                 THEN /\ Commit(error(Env,
                             <<"Can't read local variable in its own initializer.">>))
                      /\ frames' = Returned
                 ELSE LET get_op == IF arg.kind = "Ok"
                                    THEN OpCode.GetLocal ELSE OpCode.GetGlobal
                          set_op == IF arg.kind = "Ok"
                                    THEN OpCode.SetLocal ELSE OpCode.SetGlobal
                          resolved(r) ==
                              IF Top.can_assign /\ check(r.e, "Equal")
                              THEN /\ Commit(advance(r.e))
                                   /\ frames' = Append(
                                          [At(1) EXCEPT ![Len(frames)].arg = r.byte,
                                                        ![Len(frames)].set_op = set_op],
                                          expression)
                              ELSE /\ Commit(emit_byte(emit_opcode(r.e, get_op), r.byte))
                                   /\ frames' = Returned
                      IN  resolved(IF arg.kind = "Ok"
                                   THEN [e |-> Env, byte |-> arg.slot]
                                   ELSE identifier_constant(Env, name))
       \/ /\ Top.pc = 1
          /\ Commit(emit_byte(emit_opcode(Env, Top.set_op), Top.arg))
          /\ frames' = Returned
    /\ NoteSlot
    /\ UNCHANGED <<args, stdin, buffer, source, phase, stdout, result, exit_code>>

(***************************************************************************)
(* The VM (vm.rs)                                                          *)
(***************************************************************************)

EmptyMap == [k \in {} |-> k]

\* Vm::new
VmNew ==
    [chunk |-> ChunkNew, ip |-> 0, stack |-> <<>>,
     strings |-> EmptyMap, globals |-> EmptyMap]

DigitChar(i) ==
    CASE i = 0 -> "0" [] i = 1 -> "1" [] i = 2 -> "2" [] i = 3 -> "3"
      [] i = 4 -> "4" [] i = 5 -> "5" [] i = 6 -> "6" [] i = 7 -> "7"
      [] i = 8 -> "8" [] i = 9 -> "9"

RECURSIVE NatText(_)
NatText(n) ==
    IF n < 10 THEN <<DigitChar(n)>> ELSE Append(NatText(n \div 10), DigitChar(n % 10))

\* The digits after the point of r / d, for r < d: at most MaxFractionDigits.
MaxFractionDigits == 17

RECURSIVE FractionText(_, _, _)
FractionText(r, d, left) ==
    IF r = 0 \/ left = 0 THEN <<>>
    ELSE <<DigitChar((r * 10) \div d)>> \o FractionText((r * 10) % d, d, left - 1)

\* Display for f64
F64Text(x) ==
    CASE x.k = "nan" -> <<"NaN">>
      [] x.k = "inf" -> IF x.neg THEN <<"-inf">> ELSE <<"inf">>
      [] OTHER ->
           (IF x.neg THEN <<"-">> ELSE <<>>)
           \o NatText(x.n \div x.d)
           \o (IF x.n % x.d = 0 THEN <<>>
               ELSE <<".">> \o FractionText(x.n % x.d, x.d, MaxFractionDigits))

\* Display for Value
ValueText(v) ==
    CASE v.type = "Bool" -> IF v.b THEN <<"true">> ELSE <<"false">>
      [] v.type = "Nil" -> <<"nil">>
      [] v.type = "Number" -> F64Text(v.n)
      [] v.type = "Obj" -> v.str.chars

\* What one pass of the loop of run leaves: the Vm, the two streams, and status:
\* "continue", "ok" (Return), "runtime_error", or "panic" (an unwrap of None, an
\* index out of range, a byte that is no opcode).
Outcome(v, out, err, status) == [vm |-> v, out |-> out, err |-> err, status |-> status]

\* Vm::runtime_error.  ip is past the byte read last.
runtime_error(v, err, message) ==
    Append(err, [kind |-> "runtime", line |-> v.chunk.lines[v.ip],
                 at |-> <<"in script">>, msg |-> message])

Failed(v, out, err, message) ==
    Outcome(v, out, runtime_error(v, err, message), "runtime_error")

push(v, value) == [v EXCEPT !.stack = Append(@, value)]

\* Vm::pop, on a stack that is not empty: the Vm after it; it returns peek(v, 0).
pop(v) == [v EXCEPT !.stack = SubSeq(@, 1, Len(@) - 1)]

vm_peek(v, distance) == v.stack[Len(v.stack) - distance]

\* Whether read_byte has a byte to read.
CanRead(v, n) == v.ip + n <= Len(v.chunk.code)

\* Whether the operand byte at ip indexes a constant.
HasConstant(v) == CanRead(v, 1) /\ v.chunk.code[v.ip + 1] < Len(v.chunk.constants)

\* Vm::read_constant, given HasConstant.
read_constant(v) == v.chunk.constants[v.chunk.code[v.ip + 1] + 1]

\* Whether read_string finds a string: as_object panics otherwise.
HasString(v) == HasConstant(v) /\ read_constant(v).type = "Obj"

UndefinedVariable(name) == <<"Undefined variable '">> \o name \o <<"'.">>

numeric_binary_op(v, out, err, op) ==
    IF Len(v.stack) < 2 THEN Outcome(v, out, err, "panic")
    ELSE LET b == vm_peek(v, 0)
             a == vm_peek(v, 1)
             v2 == pop(pop(v))
         IN  IF a.type = "Number" /\ b.type = "Number"
             THEN Outcome(push(v2, NumberV(
                      CASE op = "sub" -> F64Sub(a.n, b.n)
                        [] op = "mul" -> F64Mul(a.n, b.n)
                        [] op = "div" -> F64Div(a.n, b.n))), out, err, "continue")
             ELSE Failed(v2, out, err, <<"Operands must be numbers.">>)

comparison_binary_op(v, out, err, ordering) ==
    IF Len(v.stack) < 2 THEN Outcome(v, out, err, "panic")
    ELSE LET b == vm_peek(v, 0)
             a == vm_peek(v, 1)
             v2 == pop(pop(v))
             o == value_partial_cmp(a, b)
         IN  IF o # "None"
             THEN Outcome(push(v2, BoolV(o = ordering)), out, err, "continue")
             ELSE Failed(v2, out, err, <<"Operands must be numbers.">>)

\* Vm::concatenate
concatenate(v, a, b) ==
    LET r == lox_string_add(v, a, b) IN push(r.vm, ObjStrV(r.str))

op_add(v, out, err) ==
    IF Len(v.stack) < 2 THEN Outcome(v, out, err, "panic")
    ELSE LET b == vm_peek(v, 0)
             a == vm_peek(v, 1)
             v2 == pop(pop(v))
         IN  IF a.type = "Number" /\ b.type = "Number"
             THEN Outcome(push(v2, NumberV(F64Add(a.n, b.n))), out, err, "continue")
             ELSE IF a.type = "Obj" /\ b.type = "Obj"
             THEN Outcome(concatenate(v2, a.str, b.str), out, err, "continue")
             ELSE Failed(v2, out, err, <<"Operands must be two numbers or two strings.">>)

\* op_define_global with the fault of keeping the value a defined name has: the
\* fault C8_GlobalsLastWriteWins is to detect.
op_define_global_first(v, out, err) ==
    IF ~HasString(v) \/ v.stack = <<>> THEN Outcome(v, out, err, "panic")
    ELSE LET name == read_constant(v).str.chars
             v1 == [v EXCEPT !.ip = @ + 1]
             value == vm_peek(v1, 0)
         IN  Outcome(pop([v1 EXCEPT !.globals =
                              [k \in DOMAIN @ \cup {name} |->
                                  IF k \in DOMAIN @ THEN @[k] ELSE value]]),
                     out, err, "continue")

op_define_global(v, out, err) ==
    IF ~HasString(v) \/ v.stack = <<>> THEN Outcome(v, out, err, "panic")
    ELSE LET name == read_constant(v).str.chars
             v1 == [v EXCEPT !.ip = @ + 1]
             value == vm_peek(v1, 0)
         IN  Outcome(pop([v1 EXCEPT !.globals =
                              [k \in DOMAIN @ \cup {name} |->
                                  IF k = name THEN value ELSE @[k]]]),
                     out, err, "continue")

op_get_global(v, out, err) ==
    IF ~HasString(v) THEN Outcome(v, out, err, "panic")
    ELSE LET name == read_constant(v).str.chars
             v1 == [v EXCEPT !.ip = @ + 1]
         IN  IF name \in DOMAIN v1.globals
             THEN Outcome(push(v1, v1.globals[name]), out, err, "continue")
             ELSE Failed(v1, out, err, UndefinedVariable(name))

\* op_set_global with the fault of leaving the name it inserted: the fault
\* C7_SetGlobalUndefined is to detect.
op_set_global_kept(v, out, err) ==
    IF ~HasString(v) \/ v.stack = <<>> THEN Outcome(v, out, err, "panic")
    ELSE LET name == read_constant(v).str.chars
             v1 == [v EXCEPT !.ip = @ + 1]
             value == vm_peek(v1, 0)
             inserted == [k \in DOMAIN v1.globals \cup {name} |->
                             IF k = name THEN value ELSE v1.globals[k]]
         IN  IF name \notin DOMAIN v1.globals
             THEN Failed(pop([v1 EXCEPT !.globals = inserted]),
                         out, err, UndefinedVariable(name))
             ELSE Outcome([v1 EXCEPT !.globals = inserted], out, err, "continue")

op_set_global(v, out, err) ==
    IF ~HasString(v) \/ v.stack = <<>> THEN Outcome(v, out, err, "panic")
    ELSE LET name == read_constant(v).str.chars
             v1 == [v EXCEPT !.ip = @ + 1]
             value == vm_peek(v1, 0)
             inserted == [k \in DOMAIN v1.globals \cup {name} |->
                             IF k = name THEN value ELSE v1.globals[k]]
         IN  IF name \notin DOMAIN v1.globals
             THEN \* insert returned None: the name is removed again
                  Failed(pop([v1 EXCEPT !.globals =
                                  [k \in DOMAIN inserted \ {name} |-> inserted[k]]]),
                         out, err, UndefinedVariable(name))
             ELSE Outcome([v1 EXCEPT !.globals = inserted], out, err, "continue")

op_get_local(v, out, err) ==
    IF ~CanRead(v, 1) THEN Outcome(v, out, err, "panic")
    ELSE LET slot == v.chunk.code[v.ip + 1]
             v1 == [v EXCEPT !.ip = @ + 1]
         IN  IF slot >= Len(v1.stack) THEN Outcome(v1, out, err, "panic")
             ELSE Outcome(push(v1, v1.stack[slot + 1]), out, err, "continue")

\* op_set_local with the fault of popping the value stored: the fault
\* C27_AssignmentYieldsValue is to detect.
op_set_local_popping(v, out, err) ==
    IF ~CanRead(v, 1) THEN Outcome(v, out, err, "panic")
    ELSE LET slot == v.chunk.code[v.ip + 1]
             v1 == [v EXCEPT !.ip = @ + 1]
         IN  IF v1.stack = <<>> \/ slot >= Len(v1.stack)
             THEN Outcome(v1, out, err, "panic")
             ELSE Outcome(pop([v1 EXCEPT !.stack[slot + 1] = vm_peek(v1, 0)]),
                          out, err, "continue")

op_set_local(v, out, err) ==
    IF ~CanRead(v, 1) THEN Outcome(v, out, err, "panic")
    ELSE LET slot == v.chunk.code[v.ip + 1]
             v1 == [v EXCEPT !.ip = @ + 1]
         IN  IF v1.stack = <<>> \/ slot >= Len(v1.stack)
             THEN Outcome(v1, out, err, "panic")
             ELSE Outcome([v1 EXCEPT !.stack[slot + 1] = vm_peek(v1, 0)],
                          out, err, "continue")

\* read_short with the fault of the low byte first: the fault
\* C28_JumpOffsets is to detect.
read_short_little(v) == v.chunk.code[v.ip + 1] + v.chunk.code[v.ip + 2] * 256

\* Vm::read_short, given CanRead(v, 2): the u16 read.
read_short(v) == v.chunk.code[v.ip + 1] * 256 + v.chunk.code[v.ip + 2]

op_jump(v, out, err, instruction) ==
    IF ~CanRead(v, 2) THEN Outcome(v, out, err, "panic")
    ELSE LET offset == read_short(v)
             v1 == [v EXCEPT !.ip = @ + 2]
         IN  CASE instruction = OpCode.JumpIfFalse ->
                    IF v1.stack = <<>> THEN Outcome(v1, out, err, "panic")
                    ELSE IF is_falsey(vm_peek(v1, 0))
                         THEN Outcome([v1 EXCEPT !.ip = @ + offset], out, err, "continue")
                         ELSE Outcome(v1, out, err, "continue")
               [] instruction = OpCode.Jump ->
                    Outcome([v1 EXCEPT !.ip = @ + offset], out, err, "continue")
               [] instruction = OpCode.Loop ->
                    IF offset > v1.ip THEN Outcome(v1, out, err, "panic")
                    ELSE Outcome([v1 EXCEPT !.ip = @ - offset], out, err, "continue")

\* One pass of the loop of Vm::run: read_byte, decode, execute.
run_instruction(v0, out, err) ==
    IF ~CanRead(v0, 1) THEN Outcome(v0, out, err, "panic")
    ELSE
    LET instruction == v0.chunk.code[v0.ip + 1]
        v == [v0 EXCEPT !.ip = @ + 1]
        Panic == Outcome(v, out, err, "panic")
    IN
    CASE instruction = OpCode.Return -> Outcome(v, out, err, "ok")
      [] instruction = OpCode.Constant ->
           IF ~HasConstant(v) THEN Panic
           ELSE Outcome(push([v EXCEPT !.ip = @ + 1], read_constant(v)),
                        out, err, "continue")
      [] instruction = OpCode.Negate ->
           IF v.stack = <<>> THEN Panic
           ELSE IF vm_peek(v, 0).type = "Number"
                THEN Outcome([v EXCEPT !.stack[Len(v.stack)].n = F64Neg(@)],
                             out, err, "continue")
                ELSE Failed(v, out, err, <<"Operand must be a number.">>)
      [] instruction = OpCode.Add -> op_add(v, out, err)
      [] instruction = OpCode.Subtract -> numeric_binary_op(v, out, err, "sub")
      [] instruction = OpCode.Multiply -> numeric_binary_op(v, out, err, "mul")
      [] instruction = OpCode.Divide -> numeric_binary_op(v, out, err, "div")
      [] instruction = OpCode.Nil -> Outcome(push(v, NilV), out, err, "continue")
      [] instruction = OpCode.True -> Outcome(push(v, BoolV(TRUE)), out, err, "continue")
      [] instruction = OpCode.False -> Outcome(push(v, BoolV(FALSE)), out, err, "continue")
      [] instruction = OpCode.Not ->
           IF v.stack = <<>> THEN Panic
           ELSE Outcome([v EXCEPT !.stack[Len(v.stack)] = value_not(@)],
                        out, err, "continue")
      [] instruction = OpCode.Equal ->
           IF Len(v.stack) < 2 THEN Panic
           ELSE Outcome(push(pop(pop(v)), BoolV(ValueEq(vm_peek(v, 1), vm_peek(v, 0)))),
                        out, err, "continue")
      [] instruction = OpCode.Greater -> comparison_binary_op(v, out, err, "Greater")
      [] instruction = OpCode.Less -> comparison_binary_op(v, out, err, "Less")
      [] instruction = OpCode["Print"] ->
           IF v.stack = <<>> THEN Panic
           ELSE Outcome(pop(v), Append(out, ValueText(vm_peek(v, 0))), err, "continue")
      [] instruction = OpCode.Pop ->
           IF v.stack = <<>> THEN Panic ELSE Outcome(pop(v), out, err, "continue")
      [] instruction = OpCode.DefineGlobal -> op_define_global(v, out, err)
      [] instruction = OpCode.GetGlobal -> op_get_global(v, out, err)
      [] instruction = OpCode.SetGlobal -> op_set_global(v, out, err)
      [] instruction = OpCode.GetLocal -> op_get_local(v, out, err)
      [] instruction = OpCode.SetLocal -> op_set_local(v, out, err)
      [] instruction \in {OpCode.JumpIfFalse, OpCode.Jump, OpCode.Loop} ->
           op_jump(v, out, err, instruction)
      [] OTHER -> Panic

\* Vm::interpret with the fault of a new table of globals: the fault
\* C35_VmStateOutlivesChunk is to detect.
interpret_fresh(v, chunk) == [v EXCEPT !.chunk = chunk, !.ip = 0, !.globals = EmptyMap]

\* Vm::interpret, up to its call of run.
interpret(v, chunk) == [v EXCEPT !.chunk = chunk, !.ip = 0]

(***************************************************************************)
(* The sources checked: the programs of the specification's scenarios and *)
(* of the cases the properties are about, and every text made of at most  *)
(* MaxFragments fragments.                                                 *)
(***************************************************************************)

\* scenario 1: print 1 + 2 * 3;
P_Arith ==
    <<"p", "r", "i", "n", "t", " ", "1", " ", "+", " ", "2", " ", "*", " ", "3", ";">>

\* scenario 2: var x = 10; / { var x = 20; print x; } / print x;
P_Shadow ==
    <<"v", "a", "r", " ", "x", " ", "=", " ", "1", "0", ";", "\n", "{", " ", "v",
      "a", "r", " ", "x", " ", "=", " ", "2", "0", ";", " ", "p", "r", "i", "n", "t",
      " ", "x", ";", " ", "}", "\n", "p", "r", "i", "n", "t", " ", "x", ";">>

\* scenario 3: var a; print a;
P_NilVar ==
    <<"v", "a", "r", " ", "a", ";", " ", "p", "r", "i", "n", "t", " ", "a", ";">>

\* scenario 4: print "foo" + "bar";
P_FooBar ==
    <<"p", "r", "i", "n", "t", " ", "\"", "f", "o", "o", "\"", " ", "+", " ", "\"",
      "b", "a", "r", "\"", ";">>

\* scenario 5: print x;
P_Undefined ==
    <<"p", "r", "i", "n", "t", " ", "x", ";">>

\* scenario 6: print 1 + "a";
P_AddMismatch ==
    <<"p", "r", "i", "n", "t", " ", "1", " ", "+", " ", "\"", "a", "\"", ";">>

\* scenario 7: { var a = a; }
P_OwnInit ==
    <<"{", " ", "v", "a", "r", " ", "a", " ", "=", " ", "a", ";", " ", "}">>

\* scenario 8, global scope: var a = 1; var a = 2;
P_GlobalTwice ==
    <<"v", "a", "r", " ", "a", " ", "=", " ", "1", ";", " ", "v", "a", "r", " ", "a",
      " ", "=", " ", "2", ";">>

\* scenario 8, block scope: { var a = 1; var a = 2; }
P_BlockTwice ==
    <<"{", " ", "v", "a", "r", " ", "a", " ", "=", " ", "1", ";", " ", "v", "a", "r",
      " ", "a", " ", "=", " ", "2", ";", " ", "}">>

\* an inner block closes before the outer variable is read: { var a = 1; { var b = 2; } print a; }
P_Nested ==
    <<"{", " ", "v", "a", "r", " ", "a", " ", "=", " ", "1", ";", " ", "{", " ", "v",
      "a", "r", " ", "b", " ", "=", " ", "2", ";", " ", "}", " ", "p", "r", "i", "n",
      "t", " ", "a", ";", " ", "}">>

\* a local shadows a local: { var a = 1; { var a = 2; print a; } print a; }
P_NestedShadow ==
    <<"{", " ", "v", "a", "r", " ", "a", " ", "=", " ", "1", ";", " ", "{", " ", "v",
      "a", "r", " ", "a", " ", "=", " ", "2", ";", " ", "p", "r", "i", "n", "t", " ",
      "a", ";", " ", "}", " ", "p", "r", "i", "n", "t", " ", "a", ";", " ", "}">>

\* a name declared twice in one block, a block in between: { var a = 1; { } var a = 2; }
P_Redeclare ==
    <<"{", " ", "v", "a", "r", " ", "a", " ", "=", " ", "1", ";", " ", "{", " ", "}",
      " ", "v", "a", "r", " ", "a", " ", "=", " ", "2", ";", " ", "}">>

\* a syntax error in the middle of a statement: 1 2 3;
P_OneTwoThree ==
    <<"1", " ", "2", " ", "3", ";">>

\* a binary operator where an expression starts: print == 1;
P_PrintEq ==
    <<"p", "r", "i", "n", "t", " ", "=", "=", " ", "1", ";">>

\* the initializer names a global of the same name: var a = 1; { var a = a; }
P_OwnInitGlobal ==
    <<"v", "a", "r", " ", "a", " ", "=", " ", "1", ";", " ", "{", " ", "v", "a", "r",
      " ", "a", " ", "=", " ", "a", ";", " ", "}">>

\* the initializer names an enclosing local: { var a = 1; { var a = 1 + a; } }
P_OwnInitLocal ==
    <<"{", " ", "v", "a", "r", " ", "a", " ", "=", " ", "1", ";", " ", "{", " ", "v",
      "a", "r", " ", "a", " ", "=", " ", "1", " ", "+", " ", "a", ";", " ", "}", " ",
      "}">>

\* a runtime error with locals on the stack: { var a = 1; /   var b = 2; /   print a + nil; }
P_LocalError ==
    <<"{", " ", "v", "a", "r", " ", "a", " ", "=", " ", "1", ";", "\n", " ", " ",
      "v", "a", "r", " ", "b", " ", "=", " ", "2", ";", "\n", " ", " ", "p", "r",
      "i", "n", "t", " ", "a", " ", "+", " ", "n", "i", "l", ";", " ", "}">>

\* an assignment to an undefined global: var b = 1; a = 2;
P_SetUndefined ==
    <<"v", "a", "r", " ", "b", " ", "=", " ", "1", ";", " ", "a", " ", "=", " ", "2",
      ";">>

\* definitions, assignments and reads of globals: var a = 1; var b = a; a = "s"; var a = b; print a; print b;
P_Globals ==
    <<"v", "a", "r", " ", "a", " ", "=", " ", "1", ";", " ", "v", "a", "r", " ", "b",
      " ", "=", " ", "a", ";", " ", "a", " ", "=", " ", "\"", "s", "\"", ";", " ",
      "v", "a", "r", " ", "a", " ", "=", " ", "b", ";", " ", "p", "r", "i", "n", "t",
      " ", "a", ";", " ", "p", "r", "i", "n", "t", " ", "b", ";">>

\* names, literals and a concatenation of equal content: var ab = "a" + "b"; var a = "ab"; print ab == a; print "a" == "b";
P_Strings ==
    <<"v", "a", "r", " ", "a", "b", " ", "=", " ", "\"", "a", "\"", " ", "+", " ",
      "\"", "b", "\"", ";", " ", "v", "a", "r", " ", "a", " ", "=", " ", "\"", "a",
      "b", "\"", ";", " ", "p", "r", "i", "n", "t", " ", "a", "b", " ", "=", "=",
      " ", "a", ";", " ", "p", "r", "i", "n", "t", " ", "\"", "a", "\"", " ", "=",
      "=", " ", "\"", "b", "\"", ";">>

\* grouping: print (1 + 2) * 3;
P_Group ==
    <<"p", "r", "i", "n", "t", " ", "(", "1", " ", "+", " ", "2", ")", " ", "*", " ",
      "3", ";">>

\* a comparison where a statement starts, between two declarations of a block: { var a = 1; == 2; var b; }
P_EqInBlock ==
    <<"{", " ", "v", "a", "r", " ", "a", " ", "=", " ", "1", ";", " ", "=", "=", " ",
      "2", ";", " ", "v", "a", "r", " ", "b", ";", " ", "}">>

\* n copies of text, one after the other.
Repeat(text, n) ==
    [i \in 1..(n * Len(text)) |-> text[((i - 1) % Len(text)) + 1]]

\* 1;
S_One == <<"1", ";">>

\* as many constants as one byte indexes: 1;1; ... 1;
P_Constants256 == Repeat(S_One, UINT8_COUNT)

\* one constant more, a number literal
P_Constants257 == Repeat(S_One, UINT8_COUNT + 1)

\* one constant more, a string literal: 1; ... 1;"s";
P_ConstantsString == P_Constants256 \o <<"\"", "s", "\"", ";">>

\* one constant more, the name of a global: 1; ... 1;a;
P_ConstantsName == P_Constants256 \o <<"a", ";">>

\* one constant more, after an error of the same statement: 1; ... 1;1+@1;
P_ConstantsPanic ==
    Repeat(S_One, UINT8_COUNT - 1) \o <<"1", "+", "@", "1", ";">>

\* var a<i>;
S_Var(i) == <<"v", "a", "r", " ", "a">> \o NatText(i) \o <<";">>

\* var a<lo>; ... var a<hi>;
RECURSIVE Declarations(_, _)
Declarations(lo, hi) ==
    IF lo > hi THEN <<>>
    ELSE IF lo = hi THEN S_Var(lo)
    ELSE Declarations(lo, (lo + hi) \div 2) \o Declarations((lo + hi) \div 2 + 1, hi)

\* as many locals as the compiler holds: {var a1;var a2; ... var a256;}
P_Locals256 == <<"{">> \o Declarations(1, UINT8_COUNT) \o <<"}">>

\* one local more: {var a1; ... var a257;}
P_Locals257 == <<"{">> \o Declarations(1, UINT8_COUNT + 1) \o <<"}">>

\* one local more, in two blocks that are not closed: {var a0;{var a1; ... var a256;
P_LocalsOpen == <<"{">> \o S_Var(0) \o <<"{">> \o Declarations(1, UINT8_COUNT)

LimitPrograms ==
    {P_Constants256, P_Constants257, P_ConstantsString, P_ConstantsName,
     P_ConstantsPanic, P_Locals256, P_Locals257, P_LocalsOpen}

\* an assignment to a sum: a + b = c;
P_AssignSum ==
    <<"a", " ", "+", " ", "b", " ", "=", " ", "c", ";">>

\* an assignment to a product: a * b = c;
P_AssignProduct ==
    <<"a", " ", "*", " ", "b", " ", "=", " ", "c", ";">>

\* an assignment to a grouping: (a) = 1;
P_AssignGroup ==
    <<"(", "a", ")", " ", "=", " ", "1", ";">>

\* an assignment to a number: 1 = 2;
P_AssignNumber ==
    <<"1", " ", "=", " ", "2", ";">>

\* an assignment to a negation: -a = 1;
P_AssignNegated ==
    <<"-", "a", " ", "=", " ", "1", ";">>

\* an assignment to a number, of nothing: var a; 1 = ; print a;
P_AssignNothing ==
    <<"v", "a", "r", " ", "a", ";", " ", "1", " ", "=", " ", ";", " ", "p", "r", "i",
      "n", "t", " ", "a", ";">>

AssignmentPrograms ==
    {P_AssignSum, P_AssignProduct, P_AssignGroup,
     P_AssignNumber, P_AssignNegated, P_AssignNothing}

\* The operators of expressions, each the characters of its lexeme.
UnaryOperators == {<<"-">>, <<"!">>}

BinaryOperators ==
    {<<"=", "=">>, <<"!", "=">>, <<"<">>, <<"<", "=">>, <<">">>, <<">", "=">>,
     <<"+">>, <<"-">>, <<"*">>, <<"/">>}

\* The most operators and groupings an expression of ExpressionPrograms has.
MaxOperators == 2

\* The expressions of exactly k operators and groupings, every operand 0.
RECURSIVE Shapes(_)
Shapes(k) ==
    IF k = 0 THEN {<<"0">>}
    ELSE {u \o x : u \in UnaryOperators, x \in Shapes(k - 1)}
         \cup {<<"(">> \o x \o <<")">> : x \in Shapes(k - 1)}
         \cup UNION {{a \o o \o b : a \in Shapes(i), o \in BinaryOperators,
                                     b \in Shapes(k - 1 - i)} : i \in 0..(k - 1)}

\* The shape with its operands numbered from the left: 1, 2, ...
Numbered(x) ==
    [i \in DOMAIN x |->
        IF x[i] = "0" THEN DigitChar(Cardinality({j \in 1..i : x[j] = "0"})) ELSE x[i]]

\* print <expression>;
ExpressionPrograms ==
    {<<"p", "r", "i", "n", "t", " ">> \o Numbered(x) \o <<";">> :
        x \in UNION {Shapes(k) : k \in 0..MaxOperators}}

\* Expressions of every variant of Value: nil, true, false, 0, 1, "", "a", and
\* 0/0, which is NaN.
Operands ==
    {<<"n", "i", "l">>, <<"t", "r", "u", "e">>, <<"f", "a", "l", "s", "e">>,
     <<"0">>, <<"1">>, <<"\"", "\"">>, <<"\"", "a", "\"">>, <<"0", "/", "0">>}

\* print a != b; print a == b;
P_Equality(a, b) ==
    <<"p", "r", "i", "n", "t", " ">> \o a \o <<" ", "!", "=", " ">> \o b \o <<";", " ">>
    \o <<"p", "r", "i", "n", "t", " ">> \o a \o <<" ", "=", "=", " ">> \o b \o <<";">>

EqualityPrograms == {P_Equality(a, b) : a, b \in Operands}

\* print a + b;
P_Add(a, b) ==
    <<"p", "r", "i", "n", "t", " ">> \o a \o <<" ", "+", " ">> \o b \o <<";">>

\* a concatenation compared with a literal: print "foo" + "bar" == "foobar";
P_FooBarEq ==
    <<"p", "r", "i", "n", "t", " ", "\"", "f", "o", "o", "\"", " ", "+", " ", "\"",
      "b", "a", "r", "\"", " ", "=", "=", " ", "\"", "f", "o", "o", "b", "a", "r",
      "\"", ";">>

AddPrograms == {P_Add(a, b) : a, b \in Operands} \cup {P_FooBarEq}

\* print a <operator> b;
P_Binary(a, operator, b) ==
    <<"p", "r", "i", "n", "t", " ">> \o a \o <<" ">> \o operator \o <<" ">> \o b
    \o <<";">>

\* print -a;
P_Negate(a) == <<"p", "r", "i", "n", "t", " ", "-">> \o a \o <<";">>

NumericPrograms ==
    {P_Binary(a, operator, b) :
        a \in Operands, operator \in {<<"-">>, <<"*">>, <<"/">>, <<">">>, <<"<">>},
        b \in Operands}
    \cup {P_Negate(a) : a \in Operands}

\* locals read, assigned and read again: { var a = 1; var b = 2; print a; print b; a = 3; print a + b; print b; }
P_LocalValues ==
    <<"{", " ", "v", "a", "r", " ", "a", " ", "=", " ", "1", ";", " ", "v", "a", "r",
      " ", "b", " ", "=", " ", "2", ";", " ", "p", "r", "i", "n", "t", " ", "a", ";",
      " ", "p", "r", "i", "n", "t", " ", "b", ";", " ", "a", " ", "=", " ", "3", ";",
      " ", "p", "r", "i", "n", "t", " ", "a", " ", "+", " ", "b", ";", " ", "p", "r",
      "i", "n", "t", " ", "b", ";", " ", "}">>

\* a chain of assignments to globals: var a = 1; var b = 2; a = b = 3; print a; print b;
P_ChainGlobals ==
    <<"v", "a", "r", " ", "a", " ", "=", " ", "1", ";", " ", "v", "a", "r", " ", "b",
      " ", "=", " ", "2", ";", " ", "a", " ", "=", " ", "b", " ", "=", " ", "3", ";",
      " ", "p", "r", "i", "n", "t", " ", "a", ";", " ", "p", "r", "i", "n", "t", " ",
      "b", ";">>

\* a chain of assignments to locals: { var a = 1; var b = 2; a = b = 3; print a; print b; }
P_ChainLocals ==
    <<"{", " ", "v", "a", "r", " ", "a", " ", "=", " ", "1", ";", " ", "v", "a", "r",
      " ", "b", " ", "=", " ", "2", ";", " ", "a", " ", "=", " ", "b", " ", "=", " ",
      "3", ";", " ", "p", "r", "i", "n", "t", " ", "a", ";", " ", "p", "r", "i", "n",
      "t", " ", "b", ";", " ", "}">>

\* a chain of assignments to a global, then a local: var a = 1; { var b = 2; a = b = 3; print a; print b; }
P_ChainGlobalLocal ==
    <<"v", "a", "r", " ", "a", " ", "=", " ", "1", ";", " ", "{", " ", "v", "a", "r",
      " ", "b", " ", "=", " ", "2", ";", " ", "a", " ", "=", " ", "b", " ", "=", " ",
      "3", ";", " ", "p", "r", "i", "n", "t", " ", "a", ";", " ", "p", "r", "i", "n",
      "t", " ", "b", ";", " ", "}">>

\* a chain of assignments to a local, then a global: var b = 2; { var a = 1; a = b = 3; print a; print b; }
P_ChainLocalGlobal ==
    <<"v", "a", "r", " ", "b", " ", "=", " ", "2", ";", " ", "{", " ", "v", "a", "r",
      " ", "a", " ", "=", " ", "1", ";", " ", "a", " ", "=", " ", "b", " ", "=", " ",
      "3", ";", " ", "p", "r", "i", "n", "t", " ", "a", ";", " ", "p", "r", "i", "n",
      "t", " ", "b", ";", " ", "}">>

\* a chain of assignments, printed: var a = 1; { var b = 2; print a = b = 3; print a; print b; }
P_ChainPrinted ==
    <<"v", "a", "r", " ", "a", " ", "=", " ", "1", ";", " ", "{", " ", "v", "a", "r",
      " ", "b", " ", "=", " ", "2", ";", " ", "p", "r", "i", "n", "t", " ", "a", " ",
      "=", " ", "b", " ", "=", " ", "3", ";", " ", "p", "r", "i", "n", "t", " ", "a",
      ";", " ", "p", "r", "i", "n", "t", " ", "b", ";", " ", "}">>

ChainPrograms ==
    {P_ChainGlobals, P_ChainLocals, P_ChainGlobalLocal,
     P_ChainLocalGlobal, P_ChainPrinted}

\* print 1; "ab
P_Unterminated ==
        <<"p", "r", "i", "n", "t", " ", "1", ";", " ", "\"", "a", "b">>

\* var a = @1; print "x
P_TwoProblems ==
        <<"v", "a", "r", " ", "a", " ", "=", " ", "@", "1", ";", " ", "p", "r", "i", "n",
      "t", " ", "\"", "x">>

Programs ==
    {P_LocalValues, P_Unterminated, P_TwoProblems} \cup ChainPrograms \cup LimitPrograms \cup AssignmentPrograms \cup ExpressionPrograms \cup EqualityPrograms
    \cup AddPrograms \cup NumericPrograms \cup
    {P_Arith, P_Shadow, P_NilVar, P_FooBar,
     P_Undefined, P_AddMismatch, P_OwnInit, P_GlobalTwice,
     P_BlockTwice, P_Nested, P_NestedShadow, P_Redeclare,
     P_OneTwoThree, P_PrintEq, P_OwnInitGlobal, P_OwnInitLocal,
     P_LocalError, P_SetUndefined, P_Globals, P_Strings,
     P_Group, P_EqInBlock}

\* { 
F_Open ==
    <<"{", " ">>

\* } 
F_Close ==
    <<"}", " ">>

\* var a=1; 
F_VarA1 ==
    <<"v", "a", "r", " ", "a", "=", "1", ";", " ">>

\* var a=a; 
F_VarAA ==
    <<"v", "a", "r", " ", "a", "=", "a", ";", " ">>

\* var b="s"; 
F_VarBStr ==
    <<"v", "a", "r", " ", "b", "=", "\"", "s", "\"", ";", " ">>

\* a=2; 
F_SetA2 ==
    <<"a", "=", "2", ";", " ">>

\* print a; 
F_PrintA ==
    <<"p", "r", "i", "n", "t", " ", "a", ";", " ">>

\* -nil; 
F_NegNil ==
    <<"-", "n", "i", "l", ";", " ">>

\* ==1; 
F_EqEq1 ==
    <<"=", "=", "1", ";", " ">>

\* 1 2 
F_OneTwo ==
    <<"1", " ", "2", " ">>

\* print "s"+"t"=="st"; 
F_Concat ==
    <<"p", "r", "i", "n", "t", " ", "\"", "s", "\"", "+", "\"", "t", "\"", "=", "=",
      "\"", "s", "t", "\"", ";", " ">>

\* @ 
F_Bad ==
    <<"@", " ">>

Fragments ==
    {F_Open, F_Close, F_VarA1, F_VarAA, F_VarBStr,
     F_SetA2, F_PrintA, F_NegNil, F_EqEq1, F_OneTwo,
     F_Concat, F_Bad}

MaxFragments == 3

RECURSIVE Concat(_)
Concat(texts) == IF texts = <<>> THEN <<>> ELSE Head(texts) \o Concat(Tail(texts))

Generated ==
    {Concat(fs) : fs \in UNION {[1..n -> Fragments] : n \in 0..MaxFragments}}

Sources == Programs \cup Generated

(***************************************************************************)
(* The driver (main.rs, run_file) and the specification                    *)
(***************************************************************************)

\* The most entries the command line has, the program's name among them.
MaxArgs == 3

Usage == <<"Usage: clox [path]">>

\* A standard input with nothing to read.
NoInput == [lines |-> <<>>, at |-> 0, ended |-> 0]

Init ==
    /\ args \in 1..MaxArgs
    /\ stdin = NoInput
    /\ buffer = <<>>
    /\ source \in IF args = 2 THEN Sources ELSE {<<>>}
    /\ phase = "main"
    /\ compiler = [CompilerNew(<<>>) EXCEPT !.scanner = Offsets(@)]
    /\ frames = <<>>
    /\ vm = VmNew
    /\ stdout = <<>>
    /\ stderr = <<>>
    /\ result = "none"
    /\ exit_code = 0
    /\ boundaries = [reading |-> [ReadingNew(source) EXCEPT !.sc = Offsets(@)],
                     count   |-> EmptyMap,
                     slots   |-> EmptyMap]

\* main; the lines that repl reads are not part of this specification.
main ==
    /\ phase = "main"
    /\ IF args = 1
       THEN phase' = "repl" /\ UNCHANGED <<stderr, exit_code>>
       ELSE IF args = 2
       THEN phase' = "start" /\ UNCHANGED <<stderr, exit_code>>
       ELSE /\ stderr' = Append(stderr, [kind |-> "driver", line |-> 0, at |-> <<>>,
                                         msg |-> Usage])
            /\ exit_code' = 64
            /\ phase' = "exit"
    /\ UNCHANGED <<args, stdin, buffer, source, boundaries, compiler, frames, vm, stdout, result>>

\* run_file with the fault of taking the compile for failed only when it ended in
\* panic mode: the fault C24_ExitCodes is to detect.
run_file_interpreting ==
    \/ /\ phase = "start"
       /\ compiler' = [CompilerNew(source) EXCEPT !.scanner = Offsets(@)]
       /\ frames' = <<Call("compile", 0, FALSE)>>
       /\ phase' = "compile"
       /\ UNCHANGED <<args, stdin, buffer, source, boundaries, vm, stdout, stderr, result, exit_code>>
    \/ /\ phase = "compiled"
       /\ IF compiler.had_error /\ compiler.panic_mode
          THEN /\ stderr' = Append(stderr, [kind |-> "driver", line |-> 0, at |-> <<>>,
                                            msg |-> <<"couldn't compile source">>])
               /\ result' = "compile_error"
               /\ exit_code' = 65
               /\ phase' = "exit"
               /\ vm' = vm
          ELSE /\ vm' = interpret(vm, compiler.compiling_chunk)
               /\ phase' = "run"
               /\ UNCHANGED <<stderr, result, exit_code>>
       /\ UNCHANGED <<args, stdin, buffer, source, boundaries, compiler, frames, stdout>>
    \/ /\ phase = "returned"
       /\ exit_code' = IF result = "runtime_error" THEN 70 ELSE 0
       /\ phase' = "exit"
       /\ UNCHANGED <<args, stdin, buffer, source, boundaries, compiler, frames, vm, stdout, stderr, result>>

run_file ==
    \/ /\ phase = "start"
       /\ compiler' = [CompilerNew(source) EXCEPT !.scanner = Offsets(@)]
       /\ frames' = <<Call("compile", 0, FALSE)>>
       /\ phase' = "compile"
       /\ UNCHANGED <<args, stdin, buffer, source, boundaries, vm, stdout, stderr, result, exit_code>>
    \/ /\ phase = "compiled"
       /\ IF compiler.had_error
          THEN /\ stderr' = Append(stderr, [kind |-> "driver", line |-> 0, at |-> <<>>,
                                            msg |-> <<"couldn't compile source">>])
               /\ result' = "compile_error"
               /\ exit_code' = 65
               /\ phase' = "exit"
               /\ vm' = vm
          ELSE /\ vm' = interpret(vm, compiler.compiling_chunk)
               /\ phase' = "run"
               /\ UNCHANGED <<stderr, result, exit_code>>
       /\ UNCHANGED <<args, stdin, buffer, source, boundaries, compiler, frames, stdout>>
    \/ /\ phase = "returned"
       /\ exit_code' = IF result = "runtime_error" THEN 70 ELSE 0
       /\ phase' = "exit"
       /\ UNCHANGED <<args, stdin, buffer, source, boundaries, compiler, frames, vm, stdout, stderr, result>>

\* One pass of the loop of Vm::run; a panic ends the process with status 101.
run ==
    /\ phase = "run"
    /\ LET step(o) ==
               /\ vm' = o.vm
               /\ stdout' = o.out
               /\ stderr' = o.err
               /\ result' = IF o.status = "continue" THEN result ELSE o.status
               /\ phase' = CASE o.status = "continue" -> "run"
                             [] o.status = "panic" -> "exit"
                             [] OTHER -> "returned"
               /\ exit_code' = IF o.status = "panic" THEN 101 ELSE exit_code
       IN  step(run_instruction(vm, stdout, stderr))
    /\ UNCHANGED <<args, stdin, buffer, source, boundaries, compiler, frames>>

Next ==
    \/ main
    \/ run_file
    \/ compile
    \/ declaration
    \/ statement
    \/ print_statement
    \/ expression_statement
    \/ block
    \/ variable_declaration
    \/ synchronize
    \/ parse_precedence
    \/ grouping
    \/ binary
    \/ unary
    \/ number
    \/ literal
    \/ string
    \/ named_variable
    \/ run

Spec == Init /\ [][Next]_vars

\* Once in synchronize, the thread of run_file goes on running it.
FairSpec == Spec /\ WF_vars(synchronize)

\* Once in Vm::run, the thread of run_file goes on running its loop.
RunFairSpec == Spec /\ WF_vars(run)

(***************************************************************************)
(* The REPL (main.rs, repl): main without a path, reading lines from the  *)
(* standard input.                                                         *)
(***************************************************************************)

\* print ;
L_Bad ==
        <<"p", "r", "i", "n", "t", " ", ";", "\n">>

\* var a = 1;
L_VarA ==
        <<"v", "a", "r", " ", "a", " ", "=", " ", "1", ";", "\n">>

\* a = a + 1; print a;
L_SetA ==
        <<"a", " ", "=", " ", "a", " ", "+", " ", "1", ";", " ", "p", "r", "i", "n", "t",
      " ", "a", ";", "\n">>

\* var s = "foo" + "bar";
L_Foo ==
        <<"v", "a", "r", " ", "s", " ", "=", " ", "\"", "f", "o", "o", "\"", " ", "+", " ",
      "\"", "b", "a", "r", "\"", ";", "\n">>

\* print s == "foobar";
L_FooEq ==
        <<"p", "r", "i", "n", "t", " ", "s", " ", "=", "=", " ", "\"", "f", "o", "o", "b",
      "a", "r", "\"", ";", "\n">>

\* { var b = (-1); print !b == nil; }
L_Block ==
        <<"{", " ", "v", "a", "r", " ", "b", " ", "=", " ", "(", "-", "1", ")", ";", " ",
      "p", "r", "i", "n", "t", " ", "!", "b", " ", "=", "=", " ", "n", "i", "l", ";",
      " ", "}", "\n">>

Lines == {L_Bad, L_VarA, L_SetA, L_Foo, L_FooEq, L_Block}

\* The most lines on the standard input.
MaxLines == 3

\* The most calls of read_line at the end of the input.
MaxEndReads == 2

\* What print_prompt writes.
Prompt == <<"> ">>

Whitespace == {" ", "\t", "\n", "\r"}

\* str::trim
RECURSIVE trim_start(_)
trim_start(text) ==
    IF text # <<>> /\ Head(text) \in Whitespace THEN trim_start(Tail(text)) ELSE text

RECURSIVE trim_end(_)
trim_end(text) ==
    IF text # <<>> /\ text[Len(text)] \in Whitespace
    THEN trim_end(SubSeq(text, 1, Len(text) - 1))
    ELSE text

trim(text) == trim_end(trim_start(text))

\* BufRead::read_line: the line is appended to the buffer; at the end of the
\* input Ok(0) is returned and the buffer is left as it is.
read_line(input, text) ==
    IF input.at >= Len(input.lines)
    THEN [stdin |-> [input EXCEPT !.ended = @ + 1], buffer |-> text]
    ELSE [stdin |-> [input EXCEPT !.at = @ + 1],
          buffer |-> text \o input.lines[input.at + 1]]

ReplInit ==
    /\ args = 1
    /\ stdin \in {[lines |-> lines, at |-> 0, ended |-> 0] :
                     lines \in UNION {[1..n -> Lines] : n \in 0..MaxLines}}
    /\ buffer = <<>>
    /\ source = <<>>
    /\ phase = "main"
    /\ compiler = [CompilerNew(<<>>) EXCEPT !.scanner = Offsets(@)]
    /\ frames = <<>>
    /\ vm = VmNew
    /\ stdout = <<>>
    /\ stderr = <<>>
    /\ result = "none"
    /\ exit_code = 0
    /\ boundaries = [reading |-> [ReadingNew(source) EXCEPT !.sc = Offsets(@)],
                     count   |-> EmptyMap,
                     slots   |-> EmptyMap]

\* repl: its entry, the head of its loop with the call of compile, the match on
\* what compile returned with the call of interpret, and the end of the loop's
\* body.
repl ==
    \/ /\ phase = "repl"
       /\ stdout' = Append(stdout, Prompt)
       /\ phase' = "read"
       /\ UNCHANGED <<args, stdin, buffer, source, boundaries, compiler, frames, vm,
                      stderr, result, exit_code>>
    \/ /\ phase = "read"
       /\ stdin.at < Len(stdin.lines) \/ stdin.ended < MaxEndReads
       /\ LET read(r) ==
                  /\ stdin' = r.stdin
                  /\ buffer' = r.buffer
                  /\ source' = trim(r.buffer)
          IN  read(read_line(stdin, buffer))
       /\ compiler' = [CompilerNew(source') EXCEPT !.scanner = Offsets(@)]
       /\ frames' = <<Call("compile", 0, FALSE)>>
       /\ boundaries' = [reading |-> [ReadingNew(source') EXCEPT !.sc = Offsets(@)],
                         count   |-> EmptyMap,
                         slots   |-> EmptyMap]
       /\ result' = "none"
       /\ phase' = "compile"
       /\ UNCHANGED <<args, vm, stdout, stderr, exit_code>>
    \/ /\ phase = "compiled"
       /\ IF compiler.had_error
          THEN /\ result' = "compile_error"
               /\ phase' = "read"
               /\ vm' = vm
          ELSE /\ vm' = interpret(vm, compiler.compiling_chunk)
               /\ phase' = "run"
               /\ result' = result
       /\ UNCHANGED <<args, stdin, buffer, source, boundaries, compiler, frames, stdout,
                      stderr, exit_code>>
    \/ /\ phase = "returned"
       /\ buffer' = <<>>
       /\ stdout' = Append(stdout, Prompt)
       /\ phase' = "read"
       /\ UNCHANGED <<args, stdin, source, boundaries, compiler, frames, vm, stderr,
                      result, exit_code>>

ReplNext ==
    \/ main
    \/ repl
    \/ compile
    \/ declaration
    \/ statement
    \/ print_statement
    \/ expression_statement
    \/ block
    \/ variable_declaration
    \/ synchronize
    \/ parse_precedence
    \/ grouping
    \/ binary
    \/ unary
    \/ number
    \/ literal
    \/ string
    \/ named_variable
    \/ run

ReplSpec == ReplInit /\ [][ReplNext]_vars

(***************************************************************************)
(* The VM alone, interpreting chunks that the compiler does not emit: this *)
(* compiler emits no JumpIfFalse, which Vm::run executes all the same.     *)
(***************************************************************************)

\* Values of every variant: nil, true, false, 0, -0, 1, NaN, "" and "a".
Values ==
    {NilV, BoolV(TRUE), BoolV(FALSE), NumberV(Fin(FALSE, 0, 1)),
     NumberV(Fin(TRUE, 0, 1)), NumberV(Fin(FALSE, 1, 1)), NumberV(NaN),
     ObjStrV(LoxString(0, <<>>)), ObjStrV(LoxString(0, <<"a">>))}

\* The most Not instructions a chunk of JumpChunks has.
MaxNots == 3

\* A chunk in the shape of `if (!...!v) print true;`: Constant 0, n times Not,
\* JumpIfFalse over the two instructions True and Print, then Return.
JumpChunk(v, n) ==
    LET code == <<OpCode.Constant, 0>> \o [i \in 1..n |-> OpCode.Not]
                \o <<OpCode.JumpIfFalse, 0, 2, OpCode.True, OpCode["Print"],
                      OpCode.Return>>
    IN  [code |-> code, constants |-> <<v>>, lines |-> [i \in DOMAIN code |-> 1]]

JumpChunks == {JumpChunk(v, n) : v \in Values, n \in 0..MaxNots}

\* The most the high byte and the low byte of a jump offset are.
MaxHigh == 1

MaxLow == 2

JumpOffsets == {high * 256 + low : high \in 0..MaxHigh, low \in 0..MaxLow}

\* The two operand bytes of the offset.
Short(offset) == <<offset \div 256, offset % 256>>

\* A chunk of code, every byte of line 1.
ChunkOf(code, constants) ==
    [code |-> code, constants |-> constants, lines |-> [i \in DOMAIN code |-> 1]]

\* Constant 0, JumpIfFalse over n instructions Nil, then Return.
FarChunk(v, n) ==
    ChunkOf(<<OpCode.Constant, 0, OpCode.JumpIfFalse>> \o Short(n)
            \o [i \in 1..n |-> OpCode.Nil] \o <<OpCode.Return>>, <<v>>)

\* Jump over a Return and n instructions Nil to a Loop, which goes back to the
\* Return.
LoopChunk(n) ==
    ChunkOf(<<OpCode.Jump>> \o Short(n + 1) \o <<OpCode.Return>>
            \o [i \in 1..n |-> OpCode.Nil] \o <<OpCode.Loop>> \o Short(n + 4), <<>>)

FarChunks ==
    {FarChunk(v, n) : v \in Values, n \in JumpOffsets}
    \cup {LoopChunk(n) : n \in JumpOffsets}

\* The state after vm.interpret(chunk) has set the chunk and ip.
VmInit ==
    /\ args = 2
    /\ stdin = NoInput
    /\ buffer = <<>>
    /\ source = <<>>
    /\ phase = "run"
    /\ compiler = [CompilerNew(<<>>) EXCEPT !.scanner = Offsets(@)]
    /\ frames = <<>>
    /\ \E chunk \in JumpChunks \cup FarChunks : vm = interpret(VmNew, chunk)
    /\ stdout = <<>>
    /\ stderr = <<>>
    /\ result = "none"
    /\ exit_code = 0
    /\ boundaries = [reading |-> [ReadingNew(source) EXCEPT !.sc = Offsets(@)],
                     count   |-> EmptyMap,
                     slots   |-> EmptyMap]

VmNext == run

VmSpec == VmInit /\ [][VmNext]_vars

(***************************************************************************)
(* The scanner alone, on every text over a few characters of each kind:   *)
(* its caller calls scan_token again and again and keeps the last two     *)
(* tokens, as Compiler::advance does.                                      *)
(***************************************************************************)

\* A blank, a newline, a slash, a quote, a digit, the dot and a character that
\* is not of the language.
ScanChars == {" ", "\n", "/", "\"", "1", ".", "@"}

\* The longest text of every character of ScanChars.
MaxText == 3

T_Fraction == <<"1", ".", "5">>

T_TrailingDot == <<"1", ".">>

T_TwoDots == <<"1", ".", "5", ".", "2">>

T_LeadingDot == <<".", "5">>

T_Signed == <<"-", "1", ".", "5">>

T_Operators == <<"!", "=", "=", "=", "<", "=", ">", "=", "!", "=">>

T_Comment == <<"1", "/", "/", "\"", "\n", "\t", "n", "i", "l", "\r", "_">>

T_Names == <<"a", "1", " ", "1", "a", ".", "a", "\"", "a", "\"", "a">>

ScanTexts ==
    UNION {[1..n -> ScanChars] : n \in 0..MaxText}
    \cup {T_Fraction, T_TrailingDot, T_TwoDots, T_LeadingDot, T_Signed, T_Operators,
          T_Comment, T_Names}

ScanInit ==
    /\ args = 2
    /\ stdin = NoInput
    /\ buffer = <<>>
    /\ source \in ScanTexts
    /\ phase = "scan"
    /\ compiler = [CompilerNew(<<>>) EXCEPT !.scanner = Offsets(@)]
    /\ frames = <<>>
    /\ vm = VmNew
    /\ stdout = <<>>
    /\ stderr = <<>>
    /\ result = "none"
    /\ exit_code = 0
    /\ boundaries = [reading |-> [ReadingNew(source) EXCEPT !.sc = Offsets(@)],
                     count   |-> EmptyMap,
                     slots   |-> EmptyMap]

\* One call of scan_token.
scan ==
    /\ phase = "scan"
    /\ LET scanned(r) ==
               compiler' = [compiler EXCEPT !.scanner  = Offsets(r.sc),
                                            !.previous = compiler.current,
                                            !.current  = r.tok]
       IN  scanned(scan_token(Scanning(compiler.scanner, source)))
    /\ UNCHANGED <<args, stdin, buffer, source, boundaries, frames, vm, stdout, stderr, exit_code,
                   phase, result>>

ScanNext == scan

ScanSpec == ScanInit /\ [][ScanNext]_vars

\* The caller goes on calling.
ScanFairSpec == ScanSpec /\ WF_vars(scan)

(***************************************************************************)
(* Properties                                                              *)
(***************************************************************************)

Range(f) == {f[x] : x \in DOMAIN f}

\* The last index at which name stands in names, 0 when it stands nowhere.
LastIndex(names, name) ==
    LET at == {i \in DOMAIN names : names[i] = name}
    IN  IF at = {} THEN 0 ELSE CHOOSE i \in at : \A j \in at : j <= i

ScannerMessages == {UnexpectedCharacter, UnterminatedString}

\* The step reports message: the compile has failed and, unless the compiler was
\* in panic mode already, the step wrote one diagnostic: message or, when advance
\* met an error token before it, the scanner's.
Reports(message) ==
    /\ compiler'.had_error
    /\ \/ compiler.panic_mode
       \/ /\ Len(stderr') = Len(stderr) + 1
          /\ stderr'[Len(stderr')].msg \in {message} \cup ScannerMessages

\* variable has been called for the identifier just consumed.
AtReference == Running("variable") /\ Top.pc = 0

\* C1: lexical scoping survives nested blocks.  In a text without an error so
\* far, a reference to a name declared in a block that is still open is resolved
\* to a local, and to the slot of the innermost such declaration; the two
\* programs of the claim print 1, and 20 then 10.
C1_ScopingSurvivesNestedBlocks ==
    /\ (/\ AtReference
        /\ ~compiler.had_error
        /\ LastIndex(LocalsHere, compiler.previous.lexeme) > 0)
       => LET r == resolve_local(compiler.locals, compiler.previous)
          IN  /\ r.kind # "NotFound"
              /\ r.kind = "Ok"
                 => r.slot = LastIndex(LocalsHere, compiler.previous.lexeme) - 1
    /\ (source = P_Nested /\ phase = "exit")
       => (result = "ok" /\ stdout = << <<"1">> >>)
    /\ (source = P_Shadow /\ phase = "exit")
       => (result = "ok" /\ stdout = << <<"2", "0">>, <<"1", "0">> >>)

\* C2: once interpret has returned a runtime error, the value stack is empty.
C2_StackEmptyAfterRuntimeError ==
    result = "runtime_error" => vm.stack = <<>>

\* C3: compile terminates on every source: a call of synchronize returns, and
\* parsing resumes.
C3_CompileTerminates == Running("synchronize") ~> ~Running("synchronize")

\* The tokens the specification's table gives a prefix rule.
PrefixTokens ==
    {"LeftParen", "Minus", "Bang", "Number", "String", "Identifier",
     "False", "Nil", "True"}

ExpectExpression == <<"Expect expression.">>

\* C4: when parse_precedence starts at a token that is not one of PrefixTokens,
\* it reports "Expect expression." and returns: the compile fails.
C4_OnlyPrefixTokensStartExpression ==
    [][(/\ Running("parse_precedence")
        /\ Top.pc = 0
        /\ compiler.current.token_type \notin PrefixTokens)
       => (Reports(ExpectExpression) /\ frames' = Returned)]_vars

\* C5: while a program that compiled runs, at each offset that lies between two
\* statements the stack holds as many values as the text has locals in scope
\* there, and it is empty when Return executes.
C5_StatementsStackNeutral ==
    phase = "run"
    => /\ vm.ip \in DOMAIN boundaries.count
          => Len(vm.stack) = boundaries.count[vm.ip]
       /\ (CanRead(vm, 1) /\ vm.chunk.code[vm.ip + 1] = OpCode.Return)
          => vm.stack = <<>>

\* Every LoxString among values.
StringsOf(values) == {v.str : v \in {w \in Range(values) : w.type = "Obj"}}

\* Every LoxString the table, the stack, the globals or a chunk holds.
LiveStrings ==
    Range(vm.strings) \cup StringsOf(vm.stack) \cup StringsOf(vm.globals)
    \cup StringsOf(vm.chunk.constants)
    \cup StringsOf(compiler.compiling_chunk.constants)

\* C6: interning is canonical: two interned strings are equal (LoxString::eq)
\* exactly when their contents are, and the table holds, under each content, the
\* one string of that content.
C6_InterningCanonical ==
    /\ \A s, t \in LiveStrings : LoxStringEq(s, t) <=> s.chars = t.chars
    /\ \A k \in DOMAIN vm.strings : vm.strings[k].chars = k
    /\ \A s \in LiveStrings : s.chars \in DOMAIN vm.strings /\ vm.strings[s.chars] = s

\* C6, its case: a concatenation and a literal of the same content are on the
\* stack, one string.
C6_Witness ==
    /\ phase = "run"
    /\ Len(vm.stack) >= 2
    /\ vm_peek(vm, 0).type = "Obj"
    /\ vm_peek(vm, 1).type = "Obj"
    /\ LoxStringEq(vm_peek(vm, 0).str, vm_peek(vm, 1).str)
    /\ CanRead(vm, 1)
    /\ vm.chunk.code[vm.ip + 1] = OpCode.Equal
    /\ vm.ip >= 3
    /\ vm.chunk.code[vm.ip - 2] = OpCode.Add
    /\ vm.chunk.code[vm.ip - 1] = OpCode.Constant

\* The instruction run is about to execute, and the name its operand gives.
NextOp == IF phase = "run" /\ CanRead(vm, 1) THEN vm.chunk.code[vm.ip + 1] ELSE -1

Operand == [vm EXCEPT !.ip = @ + 1]

OperandName == read_constant(Operand).str.chars

\* The step ended in the runtime error "Undefined variable 'name'.".
UndefinedVariableRaised(name) ==
    /\ result' = "runtime_error"
    /\ Len(stderr') = Len(stderr) + 1
    /\ stderr'[Len(stderr')].msg = UndefinedVariable(name)

\* C7: SetGlobal of a name that is not in globals is the runtime error
\* "Undefined variable", and leaves globals as they were: the name is still
\* undefined after it.
C7_SetGlobalUndefined ==
    [][(/\ NextOp = OpCode.SetGlobal
        /\ HasString(Operand)
        /\ vm.stack # <<>>
        /\ OperandName \notin DOMAIN vm.globals)
       => (/\ UndefinedVariableRaised(OperandName)
           /\ vm'.globals = vm.globals
           /\ OperandName \notin DOMAIN vm'.globals)]_vars

\* C7, its case: SetGlobal of an undefined name has failed on a VM that has
\* another global.
C7_Witness ==
    /\ result = "runtime_error"
    /\ vm.ip >= 2
    /\ vm.chunk.code[vm.ip - 1] = OpCode.SetGlobal
    /\ stderr # <<>>
    /\ stderr[Len(stderr)].msg = UndefinedVariable(<<"a">>)
    /\ DOMAIN vm.globals = {<<"b">>}

\* C8: globals are a last-write-wins map.  DefineGlobal stores the top of the
\* stack under its name, over any value the name had, and pops that one value;
\* SetGlobal of a defined name stores the top and pops nothing; GetGlobal pushes
\* what the name holds, and is the error "Undefined variable" exactly when the
\* name holds nothing; no other step changes globals.
C8_GlobalsLastWriteWins ==
    [][phase = "run" =>
       CASE NextOp = OpCode.DefineGlobal /\ HasString(Operand) /\ vm.stack # <<>> ->
              /\ DOMAIN vm'.globals = DOMAIN vm.globals \cup {OperandName}
              /\ \A k \in DOMAIN vm'.globals :
                     vm'.globals[k] = IF k = OperandName THEN vm_peek(vm, 0)
                                      ELSE vm.globals[k]
              /\ vm'.stack = SubSeq(vm.stack, 1, Len(vm.stack) - 1)
         [] NextOp = OpCode.SetGlobal /\ HasString(Operand) /\ vm.stack # <<>>
                /\ OperandName \in DOMAIN vm.globals ->
              /\ vm'.globals = [vm.globals EXCEPT ![OperandName] = vm_peek(vm, 0)]
              /\ vm'.stack = vm.stack
              /\ result' = result
         [] NextOp = OpCode.GetGlobal /\ HasString(Operand) ->
              /\ vm'.globals = vm.globals
              /\ IF OperandName \in DOMAIN vm.globals
                 THEN /\ vm'.stack = Append(vm.stack, vm.globals[OperandName])
                      /\ result' = result
                 ELSE UndefinedVariableRaised(OperandName)
         [] OTHER -> vm'.globals = vm.globals]_vars

\* C8, its case: a was defined 1, set to "s" and defined again from b, and the
\* GetGlobal of print a has pushed the 1 it holds now.
C8_Witness ==
    /\ source = P_Globals
    /\ phase = "run"
    /\ vm.ip >= 2
    /\ vm.chunk.code[vm.ip - 1] = OpCode.GetGlobal
    /\ DOMAIN vm.globals = {<<"a">>, <<"b">>}
    /\ vm.globals[<<"a">>] = NumberV(Fin(FALSE, 1, 1))
    /\ vm.stack = <<vm.globals[<<"a">>]>>
    /\ read_constant([vm EXCEPT !.ip = @ - 1]).str.chars = <<"a">>

AlreadyDeclared == <<"Already a variable with this name in this scope.">>

\* variable_declaration is at the name it declares, in a text without an error
\* so far.
AtDeclaredName ==
    /\ Running("variable_declaration")
    /\ Top.pc = 0
    /\ ~compiler.had_error
    /\ compiler.current.token_type = "Identifier"

\* C9: a declaration of a name that the innermost open block has declared
\* already is reported as "Already a variable with this name in this scope.";
\* any other declaration (of a name an enclosing block has, or at global scope)
\* is not.
C9_DuplicateDeclaration ==
    [][AtDeclaredName =>
       IF /\ BlocksHere # <<>>
          /\ compiler.current.lexeme \in Range(BlocksHere[Len(BlocksHere)])
       THEN Reports(AlreadyDeclared)
       ELSE \A i \in (Len(stderr) + 1)..Len(stderr') :
                stderr'[i].msg # AlreadyDeclared]_vars

OwnInitializer == <<"Can't read local variable in its own initializer.">>

\* The compiler is in the initializer of a declaration of a local.
InLocalInitializer ==
    /\ phase = "compile"
    /\ compiler.locals.scope_depth > 0
    /\ \E i \in 1..(Len(frames) - 1) : frames[i].fn = "variable_declaration"

\* The local that was declared last.
NewLocal == compiler.locals.locals[Len(compiler.locals.locals)]

\* C10: in the initializer of a local the new local has depth None, and a
\* reference to its name there is reported as "Can't read local variable in its
\* own initializer." and emits no code: the compile fails, and run_file exits
\* with 65.
C10_OwnInitializer ==
    [][/\ InLocalInitializer
          => (compiler.locals.locals # <<>> /\ NewLocal.depth = NoDepth)
       /\ (/\ AtReference
           /\ InLocalInitializer
           /\ identifiers_equal(NewLocal.name, compiler.previous))
          => /\ Reports(OwnInitializer)
             /\ compiler'.compiling_chunk = compiler.compiling_chunk
             /\ frames' = Returned
       /\ (source \in {P_OwnInit, P_OwnInitGlobal, P_OwnInitLocal} /\ phase' = "exit")
          => /\ exit_code' = 65
             /\ \E i \in DOMAIN stderr' : stderr'[i].msg = OwnInitializer]_vars

\* C10, its case: the reference was reported while an enclosing block holds a
\* local of the same name.
C10_Witness ==
    /\ phase = "compile"
    /\ compiler.had_error
    /\ stderr # <<>>
    /\ stderr[Len(stderr)].msg = OwnInitializer
    /\ Len(compiler.locals.locals) = 2
    /\ identifiers_equal(compiler.locals.locals[1].name, compiler.locals.locals[2].name)
    /\ compiler.locals.locals[1].depth = 1
    /\ compiler.locals.locals[2].depth = NoDepth

\* The bytes run reads after an opcode.
OperandBytes(opcode) ==
    IF opcode \in {OpCode.Constant, OpCode.DefineGlobal, OpCode.GetGlobal,
                   OpCode.SetGlobal, OpCode.GetLocal, OpCode.SetLocal}
    THEN 1
    ELSE IF opcode \in {OpCode.JumpIfFalse, OpCode.Jump, OpCode.Loop} THEN 2
    ELSE 0

\* The offsets at which the instructions of code start: a decoding is the offset
\* reached and the starts passed, and 2^k more instructions are decoded at a time.
RECURSIVE Decoded(_, _, _)
Decoded(code, d, k) ==
    IF d.at >= Len(code) THEN d
    ELSE IF k = 0
    THEN [at |-> d.at + 1 + OperandBytes(code[d.at + 1]), starts |-> d.starts \cup {d.at}]
    ELSE Decoded(code, Decoded(code, d, k - 1), k - 1)

InstructionStarts(code) == Decoded(code, [at |-> 0, starts |-> {}], MaxDoublings).starts

\* The operands, in code, of the instructions that index the constant pool.
ConstantOperands(code) ==
    {code[i + 2] :
        i \in {j \in InstructionStarts(code) :
                  /\ j + 2 <= Len(code)
                  /\ code[j + 1] \in {OpCode.Constant, OpCode.DefineGlobal,
                                      OpCode.GetGlobal, OpCode.SetGlobal}}}

\* The bytes the step appended to the chunk being compiled.
Emitted ==
    SubSeq(compiler'.compiling_chunk.code, Len(compiler.compiling_chunk.code) + 1,
           Len(compiler'.compiling_chunk.code))

TooManyConstants == <<"Too many constants in one chunk.">>

\* C11: every constant index emitted is in 0..255 and indexes an entry of the
\* pool; a step that adds a constant to a pool of 256 reports "Too many constants
\* in one chunk."; the chunk a successful compile hands to the VM holds at most
\* 256 constants, every operand indexing one of them; and a compile whose pool
\* went over 256 ends in exit status 65.
C11_ConstantIndexFits ==
    [][/\ phase = "compile"
          => \A operand \in ConstantOperands(Emitted) :
                 /\ operand \in 0..U8_MAX
                 /\ operand < Len(compiler'.compiling_chunk.constants)
       /\ (/\ Len(compiler.compiling_chunk.constants) >= UINT8_COUNT
           /\ Len(compiler'.compiling_chunk.constants)
                  > Len(compiler.compiling_chunk.constants))
          => Reports(TooManyConstants)
       /\ (phase = "compiled" /\ phase' = "run")
          => /\ Len(vm'.chunk.constants) <= UINT8_COUNT
             /\ \A operand \in ConstantOperands(vm'.chunk.code) :
                    operand < Len(vm'.chunk.constants)
       /\ (Len(compiler.compiling_chunk.constants) > UINT8_COUNT /\ phase' = "exit")
          => (result' = "compile_error" /\ exit_code' = 65)]_vars

\* C11, its case: the 257th constant was added, reported, and index 0 emitted in
\* its place.
C11_Witness ==
    /\ phase = "compile"
    /\ Len(compiler.compiling_chunk.constants) = UINT8_COUNT + 1
    /\ compiler.had_error
    /\ stderr # <<>>
    /\ stderr[Len(stderr)].msg = TooManyConstants
    /\ ConstantOperands(compiler.compiling_chunk.code) = 0..U8_MAX

TooManyLocals == <<"Too many local variables in function.">>

\* variable_declaration is at a name that the locals of the current scope do not
\* hold, inside a block.
AtNewLocalName ==
    /\ Running("variable_declaration")
    /\ Top.pc = 0
    /\ compiler.locals.scope_depth > 0
    /\ compiler.current.token_type = "Identifier"
    /\ ~contains_in_current_scope(compiler.locals, compiler.current)

\* C12: the locals never number more than 256; the declaration of a local when
\* 256 are live reports "Too many local variables in function." and adds none,
\* and the run ends in exit status 65; and when compile finishes, with or without
\* errors, the locals are empty and scope_depth is 0.
C12_LocalsBounded ==
    [][/\ Len(compiler'.locals.locals) <= UINT8_COUNT
       /\ (AtNewLocalName /\ Len(compiler.locals.locals) = UINT8_COUNT)
          => /\ Reports(TooManyLocals)
             /\ Len(compiler'.locals.locals) = UINT8_COUNT
       /\ (/\ phase' = "exit"
           /\ \E i \in DOMAIN stderr' : stderr'[i].msg = TooManyLocals)
          => (result' = "compile_error" /\ exit_code' = 65)
       /\ phase' = "compiled" => compiler'.locals = LocalsNew]_vars

\* C12, its case: compile has finished on a text that declared a 257th local in
\* a block it never closed.
C12_Witness ==
    /\ phase = "compiled"
    /\ compiler.locals = LocalsNew
    /\ \E i \in DOMAIN stderr : stderr[i].msg = TooManyLocals
    /\ \E i \in DOMAIN stderr : stderr[i].msg = <<"Expect '}' after block.">>

\* C13: code and lines of a chunk have one length, in the chunk being compiled
\* and in the chunk the VM runs; a step of the compile only appends to both, and
\* the line it records with each byte is the line of the token consumed last, the
\* one emit_byte and emit_opcode pass.
C13_LinesParallelCode ==
    [][/\ Len(compiler'.compiling_chunk.code) = Len(compiler'.compiling_chunk.lines)
       /\ Len(vm'.chunk.code) = Len(vm'.chunk.lines)
       /\ phase = "compile"
          => LET old == compiler.compiling_chunk
                 new == compiler'.compiling_chunk
             IN  /\ Len(old.code) <= Len(new.code)
                 /\ SubSeq(new.code, 1, Len(old.code)) = old.code
                 /\ Len(old.lines) <= Len(new.lines)
                 /\ SubSeq(new.lines, 1, Len(old.lines)) = old.lines
                 /\ \A i \in (Len(old.lines) + 1)..Len(new.lines) :
                        new.lines[i] = compiler'.previous.line]_vars

\* C13, its case: the VM runs a chunk compiled from a text of three lines, and
\* has reached a byte of the third.
C13_Witness ==
    /\ phase = "run"
    /\ vm.chunk.code # <<>>
    /\ Len(vm.chunk.code) = Len(vm.chunk.lines)
    /\ Range(vm.chunk.lines) = {1, 2, 3}
    /\ vm.ip > 0
    /\ vm.chunk.lines[vm.ip] = 3

IsInitialized(local) == local.depth # NoDepth

\* C14: throughout a compile, the depths that the locals have, read from the
\* bottom of the stack to its top, never decrease, and none is above scope_depth.
C14_DepthsOrdered ==
    phase = "compile"
    => LET initialized == SelectSeq(compiler.locals.locals, IsInitialized)
       IN  /\ \A i \in 1..(Len(initialized) - 1) :
                  initialized[i].depth <= initialized[i + 1].depth
           /\ \A i \in DOMAIN initialized :
                  initialized[i].depth <= compiler.locals.scope_depth

\* C14, its case: Locals::add has failed in the inner of two blocks, and
\* mark_initialized has then marked the local on top.
C14_Witness ==
    /\ Running("declaration")
    /\ stderr # <<>>
    /\ stderr[Len(stderr)].msg = TooManyLocals
    /\ Len(compiler.locals.locals) = UINT8_COUNT
    /\ compiler.locals.scope_depth = 2
    /\ compiler.locals.locals[1].depth = 1
    /\ NewLocal.depth = 2
    /\ compiler.previous.token_type = "Semicolon"

\* C15: a step of the compile writes a diagnostic only when it enters panic
\* mode, and then it writes one and sets had_error; in panic mode no step
\* writes one; and only the entry of synchronize leaves panic mode.
C15_PanicSuppresses ==
    [][phase = "compile"
       => /\ stderr' # stderr
             => /\ ~compiler.panic_mode
                /\ compiler'.panic_mode
                /\ compiler'.had_error
                /\ Len(stderr') = Len(stderr) + 1
                /\ SubSeq(stderr', 1, Len(stderr)) = stderr
          /\ compiler.panic_mode => stderr' = stderr
          /\ ~compiler.panic_mode /\ compiler'.panic_mode => stderr' # stderr
          /\ compiler.panic_mode /\ ~compiler'.panic_mode
             => Running("synchronize") /\ Top.pc = 0]_vars

\* C15, its case: in panic mode after the scanner's error, make_constant has
\* signalled the error of the 257th constant, and nothing was written for it.
C15_Witness ==
    /\ phase = "compile"
    /\ compiler.panic_mode
    /\ Len(stderr) = 1
    /\ stderr[1].msg = UnexpectedCharacter
    /\ Len(compiler.compiling_chunk.constants) = UINT8_COUNT + 1

\* An error was signalled in the compile: every signal goes through error_at,
\* whose first call writes a diagnostic.
Signalled == \E i \in DOMAIN stderr : stderr[i].kind = "compile"

\* C16: no step of the compile clears had_error; when compile returns,
\* had_error is set exactly when an error was signalled; run_file gets a failure
\* exactly when had_error is set, and otherwise the chunk compiled.
C16_FailureIffSignalled ==
    [][/\ phase = "compile" /\ compiler.had_error => compiler'.had_error
       /\ phase = "compile" /\ stderr' # stderr => compiler'.had_error
       /\ phase = "compiled"
          => /\ compiler.had_error <=> Signalled
             /\ result' = "compile_error" <=> compiler.had_error
             /\ phase' = "run" <=> ~compiler.had_error
             /\ phase' = "run" => vm'.chunk = compiler.compiling_chunk
             /\ phase' # "run" => vm'.chunk = ChunkNew]_vars

\* C16, its case: the compile has failed for one error, after which synchronize
\* left panic mode and the rest of the source compiled without error.
C16_Witness ==
    /\ result = "compile_error"
    /\ compiler.had_error
    /\ ~compiler.panic_mode
    /\ Len(stderr) = 2
    /\ stderr[1].kind = "compile"
    /\ Len(compiler.compiling_chunk.code) > 1
    /\ vm.chunk = ChunkNew

InvalidAssignmentTarget == <<"Invalid assignment target.">>

\* C17: after "Invalid assignment target." is reported the compile fails: the
\* synchronize that follows the report returns.
C17_InvalidTargetFails ==
    (/\ Running("synchronize")
     /\ \E i \in DOMAIN stderr : stderr[i].msg = InvalidAssignmentTarget)
    ~> ~Running("synchronize")

\* The tokens of the text.
RECURSIVE TokensOf(_)
TokensOf(sc) ==
    LET scanned(r) ==
            IF r.tok.token_type = "Eof" THEN <<>> ELSE <<r.tok>> \o TokensOf(r.sc)
    IN  scanned(scan_token(sc))

\* The precedence ladder, the loosest operators first.
Ladder ==
    <<{"EqualEqual", "BangEqual"},
      {"Greater", "GreaterEqual", "Less", "LessEqual"},
      {"Plus", "Minus"},
      {"Star", "Slash"}>>

\* The instructions of a binary operator.
OperatorCode(token_type) ==
    CASE token_type = "EqualEqual" -> <<OpCode.Equal>>
      [] token_type = "BangEqual" -> <<OpCode.Equal, OpCode.Not>>
      [] token_type = "Greater" -> <<OpCode.Greater>>
      [] token_type = "GreaterEqual" -> <<OpCode.Less, OpCode.Not>>
      [] token_type = "Less" -> <<OpCode.Less>>
      [] token_type = "LessEqual" -> <<OpCode.Greater, OpCode.Not>>
      [] token_type = "Plus" -> <<OpCode.Add>>
      [] token_type = "Minus" -> <<OpCode.Subtract>>
      [] token_type = "Star" -> <<OpCode.Multiply>>
      [] token_type = "Slash" -> <<OpCode.Divide>>

\* A parse by the ladder: the postfix code of what is parsed, the values of its
\* operands in order, and the tokens that rest.
Parse(tokens) == [post |-> <<>>, values |-> <<>>, rest |-> tokens]

Shifted(p) == [p EXCEPT !.rest = Tail(@)]

RECURSIVE Rung(_, _)
RECURSIVE RungRest(_, _)
RECURSIVE Primary(_)

\* One rung: operands of the next rung, joined from the left by its operators.
Rung(p, level) ==
    IF level > Len(Ladder) THEN Primary(p) ELSE RungRest(Rung(p, level + 1), level)

RungRest(left, level) ==
    IF left.rest # <<>> /\ Head(left.rest).token_type \in Ladder[level]
    THEN LET joined(right) ==
                 [right EXCEPT !.post = @ \o OperatorCode(Head(left.rest).token_type)]
         IN  RungRest(joined(Rung(Shifted(left), level + 1)), level)
    ELSE left

\* Above the ladder: a unary operator and its operand, a grouping, or a number.
Primary(p) ==
    LET token == Head(p.rest) IN
    CASE token.token_type = "Minus" ->
             [Primary(Shifted(p)) EXCEPT !.post = Append(@, OpCode.Negate)]
      [] token.token_type = "Bang" ->
             [Primary(Shifted(p)) EXCEPT !.post = Append(@, OpCode.Not)]
      [] token.token_type = "LeftParen" -> Shifted(Rung(Shifted(p), 1))
      [] OTHER ->
             [post   |-> p.post \o <<OpCode.Constant, Len(p.values)>>,
              values |-> Append(p.values, NumberV(ParseF64(token.lexeme))),
              rest   |-> Tail(p.rest)]

\* The parse of the expression of `print <expression>;`.
ExpressionOf(src) == Rung(Parse(Tail(TokensOf(ScannerNew(src)))), 1)

\* print 1-2-3;
P_Subtractions == <<"p", "r", "i", "n", "t", " ", "1", "-", "2", "-", "3", ";">>

\* C18: the chunk compiled for `print <expression>;` is the postfix code of the
\* expression parsed by the precedence ladder, its binary operators joined from
\* the left, then Print and Return; its constants are the operands in order.
C18_PostfixOfLadder ==
    phase = "compiled" /\ source \in ExpressionPrograms \cup {P_Arith, P_Group}
    => LET holds(parsed) ==
               /\ parsed.rest = <<[token_type |-> "Semicolon", lexeme |-> <<";">>,
                                   line |-> 1]>>
               /\ ~compiler.had_error
               /\ compiler.compiling_chunk.code
                     = parsed.post \o <<OpCode["Print"], OpCode.Return>>
               /\ compiler.compiling_chunk.constants = parsed.values
       IN  holds(ExpressionOf(source))

\* C18, its case: `1-2-3` has run as (1-2)-3.
C18_Witness ==
    /\ source = P_Subtractions
    /\ phase = "exit"
    /\ result = "ok"
    /\ stdout = <<<<"-", "4">>>>

\* The opcodes of the instructions of code, in order.
Opcodes(code) ==
    LET starts == InstructionStarts(code)
    IN  [i \in 1..Cardinality(starts) |->
            code[(CHOOSE j \in starts : Cardinality({k \in starts : k < j}) = i - 1) + 1]]

\* C19: of `print a != b; print a == b;` the first statement is compiled as
\* the second is, with a Not after its Equal; and when the program has run, it
\* has printed true for exactly one of the two.
C19_BangEqualNegatesEqual ==
    source \in EqualityPrograms
    => /\ phase = "compiled"
          => LET holds(ops, n) ==
                     /\ ~compiler.had_error
                     /\ Len(ops) = 2 * n + 6
                     /\ SubSeq(ops, 1, n) = SubSeq(ops, n + 4, 2 * n + 3)
                     /\ SubSeq(ops, n + 1, n + 3)
                           = <<OpCode.Equal, OpCode.Not, OpCode["Print"]>>
                     /\ SubSeq(ops, 2 * n + 4, 2 * n + 6)
                           = <<OpCode.Equal, OpCode["Print"], OpCode.Return>>
                 of(ops) == holds(ops, (Len(ops) - 6) \div 2)
             IN  of(Opcodes(compiler.compiling_chunk.code))
       /\ phase = "exit"
          => /\ result = "ok"
             /\ stdout \in {<<<<"true">>, <<"false">>>>, <<<<"false">>, <<"true">>>>}

\* C19, its case: NaN != NaN has printed true and NaN == NaN false.
C19_Witness ==
    /\ source = P_Equality(<<"0", "/", "0">>, <<"0", "/", "0">>)
    /\ phase = "exit"
    /\ stdout = <<<<"true">>, <<"false">>>>

\* The falsiness of the specification: nil and false, and nothing else.
Falsey(v) == v.type = "Nil" \/ (v.type = "Bool" /\ ~v.b)

IsNot(opcode) == opcode = OpCode.Not

\* v under n Not instructions.
Negated(v, n) ==
    IF n = 0 THEN v ELSE BoolV(IF n % 2 = 1 THEN Falsey(v) ELSE ~Falsey(v))

\* C20: Not puts Bool(falsey(v)) in the place of the top v of the stack and
\* leaves the depth; JumpIfFalse jumps exactly when the top is falsey, and
\* leaves the stack; falsey are nil and false only. So a chunk of JumpChunks
\* prints true exactly when its value under its Not instructions is not falsey.
C20_OneFalsinessRule ==
    [][phase = "run" /\ vm.stack # <<>>
       => LET top == vm_peek(vm, 0)
              nots == Len(SelectSeq(Opcodes(vm.chunk.code), IsNot))
          IN  /\ NextOp = OpCode.Not
                 => /\ vm'.stack = [vm.stack EXCEPT ![Len(vm.stack)] = BoolV(Falsey(top))]
                    /\ vm'.ip = vm.ip + 1
              /\ NextOp = OpCode.JumpIfFalse
                 => /\ vm'.stack = vm.stack
                    /\ vm'.ip = vm.ip + 3 + (IF Falsey(top) THEN read_short(Operand) ELSE 0)
                    /\ top = Negated(vm.chunk.constants[1], nots)
              /\ phase' = "returned" /\ vm.chunk \in JumpChunks
                 => /\ result' = "ok"
                    /\ stdout' = IF Falsey(Negated(vm.chunk.constants[1], nots))
                                 THEN <<>> ELSE <<<<"true">>>>]_vars

\* C20, its case: the empty string under two Not instructions is true, and
\* JumpIfFalse has not jumped.
C20_Witness ==
    /\ phase = "returned"
    /\ vm.chunk = JumpChunk(ObjStrV(LoxString(0, <<>>)), 2)
    /\ stdout = <<<<"true">>>>

\* Two values of one variant with equal payloads: booleans the same, numbers
\* equal as numbers are (0 and -0 are, NaN and NaN are not), strings of the same
\* contents.
SameValue(a, b) ==
    /\ a.type = b.type
    /\ CASE a.type = "Nil" -> TRUE
         [] a.type = "Bool" -> a.b = b.b
         [] a.type = "Number" ->
              /\ a.n.k # "nan"
              /\ b.n.k # "nan"
              /\ a.n = b.n \/ (IsZero(a.n) /\ IsZero(b.n))
         [] a.type = "Obj" -> a.str.chars = b.str.chars

\* C21: Equal puts, in the place of its two operands, the one Bool that tells
\* whether they are of one variant with equal payloads, whichever was pushed
\* first.
C21_EqualIsStructural ==
    [][NextOp = OpCode.Equal /\ Len(vm.stack) >= 2
       => LET a == vm_peek(vm, 1)
              b == vm_peek(vm, 0)
          IN  /\ vm'.stack = Append(SubSeq(vm.stack, 1, Len(vm.stack) - 2),
                                    BoolV(SameValue(a, b)))
              /\ SameValue(a, b) = SameValue(b, a)
              /\ ValueEq(a, b) = ValueEq(b, a)
              /\ phase' = "run"]_vars

\* C21, its case: Equal has found a concatenation equal to a literal of its
\* contents, and two different literals not equal.
C21_Witness ==
    /\ source = P_Strings
    /\ phase = "exit"
    /\ stdout = <<<<"true">>, <<"false">>>>

AddOperands == <<"Operands must be two numbers or two strings.">>

\* The step has returned the runtime error of message, and pushed nothing.
RuntimeErrorRaised(message) ==
    /\ phase' = "returned"
    /\ result' = "runtime_error"
    /\ Len(stderr') = Len(stderr) + 1
    /\ stderr'[Len(stderr')].msg = message
    /\ Len(vm'.stack) <= Len(vm.stack)
    /\ \A i \in DOMAIN vm'.stack : vm'.stack[i] = vm.stack[i]
    /\ stdout' = stdout

\* C22: Add puts the sum in the place of two numbers; in the place of two
\* strings the interned string of the contents of a, then of b, which is the
\* table's one string of these contents; and on any other two operands it
\* returns the runtime error and pushes nothing.
C22_AddNumbersOrStrings ==
    [][NextOp = OpCode.Add /\ Len(vm.stack) >= 2
       => LET a == vm_peek(vm, 1)
              b == vm_peek(vm, 0)
              below == SubSeq(vm.stack, 1, Len(vm.stack) - 2)
          IN  CASE a.type = "Number" /\ b.type = "Number" ->
                     /\ vm'.stack = Append(below, NumberV(F64Add(a.n, b.n)))
                     /\ phase' = "run"
                     /\ stderr' = stderr
                [] a.type = "Obj" /\ b.type = "Obj" ->
                     /\ Len(vm'.stack) = Len(vm.stack) - 1
                     /\ SubSeq(vm'.stack, 1, Len(below)) = below
                     /\ vm_peek(vm', 0).type = "Obj"
                     /\ vm_peek(vm', 0).str.chars = a.str.chars \o b.str.chars
                     /\ vm'.strings[a.str.chars \o b.str.chars] = vm_peek(vm', 0).str
                     /\ \A k \in DOMAIN vm.strings : vm'.strings[k] = vm.strings[k]
                     /\ phase' = "run"
                     /\ stderr' = stderr
                [] OTHER -> RuntimeErrorRaised(AddOperands)]_vars

\* C22, its case: "foo" + "bar" has compared equal to the literal "foobar".
C22_Witness ==
    /\ source = P_FooBarEq
    /\ phase = "exit"
    /\ result = "ok"
    /\ stdout = <<<<"true">>>>

\* The instructions of two operands that take numbers only.
NumericBinary ==
    {OpCode.Subtract, OpCode.Multiply, OpCode.Divide, OpCode.Greater, OpCode.Less}

\* The step has pushed a value of the variant, in the place of n operands.
Pushed(variant, n) ==
    /\ phase' = "run"
    /\ stderr' = stderr
    /\ Len(vm'.stack) = Len(vm.stack) - n + 1
    /\ vm_peek(vm', 0).type = variant

\* C23: Negate, Subtract, Multiply, Divide, Greater and Less push a result, a
\* Number or for Greater and Less a Bool, when every operand is a Number, and
\* return a runtime error when one is not.
C23_NumbersAlwaysResult ==
    [][/\ NextOp = OpCode.Negate /\ vm.stack # <<>>
          => IF vm_peek(vm, 0).type = "Number"
             THEN Pushed("Number", 1)
             ELSE RuntimeErrorRaised(<<"Operand must be a number.">>)
       /\ NextOp \in NumericBinary /\ Len(vm.stack) >= 2
          => IF vm_peek(vm, 1).type = "Number" /\ vm_peek(vm, 0).type = "Number"
             THEN Pushed(IF NextOp \in {OpCode.Greater, OpCode.Less}
                         THEN "Bool" ELSE "Number", 2)
             ELSE RuntimeErrorRaised(<<"Operands must be numbers.">>)]_vars

\* C24: the process exits with 64 when the command line has more than one
\* argument; with 65, nothing interpreted, when the compile of the file failed;
\* with 70 when the run returned a runtime error; and with 0 when it returned
\* normally; and with any of these in this case only.
C24_ExitCodes ==
    phase = "exit"
    => /\ exit_code = 64 <=> args > 2
       /\ exit_code = 65 <=> args = 2 /\ compiler.had_error
       /\ exit_code = 70 <=> result = "runtime_error"
       /\ exit_code = 0 <=> result = "ok"
       /\ result = "ok" \/ result = "runtime_error"
          => args = 2 /\ ~compiler.had_error /\ vm.chunk = compiler.compiling_chunk
       /\ exit_code \in {64, 65}
          => vm = VmNew \/ (vm.chunk = ChunkNew /\ vm.stack = <<>> /\ stdout = <<>>)

\* C24, its case: a file whose compile failed after synchronize left panic mode,
\* with a chunk compiled and not interpreted.
C24_Witness ==
    /\ phase = "exit"
    /\ exit_code = 65
    /\ ~compiler.panic_mode
    /\ Len(compiler.compiling_chunk.code) > 1
    /\ vm.chunk = ChunkNew
    /\ stdout = <<>>

\* C25: the step of end_scope takes one from scope_depth, removes from the top
\* the locals of a depth above the new scope_depth and no other local, and emits
\* one Pop for each local removed and nothing else.
C25_EndScopePopsInnerOnly ==
    [][Running("statement") /\ Top.pc = 1
       => LET depth == compiler.locals.scope_depth - 1
              Stays(local) == ~(local.depth > depth)
              stay == SelectSeq(compiler.locals.locals, Stays)
          IN  /\ compiler'.locals.scope_depth = depth
              /\ compiler'.locals.locals = stay
              /\ Emitted = [i \in 1..(Len(compiler.locals.locals) - Len(stay))
                               |-> OpCode.Pop]]_vars

\* The names of the compiler's locals, the oldest first.
LocalNames == [i \in DOMAIN compiler.locals.locals |-> compiler.locals.locals[i].name.lexeme]

LocalOps == {OpCode.GetLocal, OpCode.SetLocal}

C27_AssignmentYieldsValue ==
    [][/\ NextOp = OpCode.SetLocal /\ CanRead(vm, 2) /\ vm.stack # <<>>
          /\ vm.chunk.code[vm.ip + 2] < Len(vm.stack)
          => /\ vm'.stack = [vm.stack EXCEPT ![vm.chunk.code[vm.ip + 2] + 1] =
                                                 vm_peek(vm, 0)]
             /\ vm_peek(vm', 0) = vm_peek(vm, 0)
             /\ vm'.globals = vm.globals
             /\ phase' = "run"
       /\ NextOp = OpCode.SetGlobal /\ HasString(Operand) /\ vm.stack # <<>>
          /\ OperandName \in DOMAIN vm.globals
          => /\ vm'.globals = [vm.globals EXCEPT ![OperandName] = vm_peek(vm, 0)]
             /\ vm'.stack = vm.stack
             /\ phase' = "run"
       /\ source \in ChainPrograms /\ phase' = "exit"
          => /\ result' = "ok"
             /\ stdout' = IF source = P_ChainPrinted
                          THEN <<<<"3">>, <<"3">>, <<"3">>>>
                          ELSE <<<<"3">>, <<"3">>>>]_vars

\* C27, its case: the chain of a global and a local has run, and both hold 3.
C27_Witness ==
    /\ source = P_ChainPrinted
    /\ phase = "exit"
    /\ stdout = <<<<"3">>, <<"3">>, <<"3">>>>
    /\ vm.globals[<<"a">>] = NumberV(Fin(FALSE, 3, 1))

JumpOps == {OpCode.JumpIfFalse, OpCode.Jump, OpCode.Loop}

\* A step from a jump instruction with its operand goes by the offset.
JumpsByOffset ==
    NextOp \in JumpOps /\ CanRead(vm, 3)
    => LET offset == vm.chunk.code[vm.ip + 2] * 256 + vm.chunk.code[vm.ip + 3]
           behind == vm.ip + 3
       IN  CASE NextOp = OpCode.Jump ->
                  /\ vm'.ip = behind + offset
                  /\ vm'.stack = vm.stack
                  /\ phase' = "run"
             [] NextOp = OpCode.Loop /\ offset <= behind ->
                  /\ vm'.ip = behind - offset
                  /\ vm'.stack = vm.stack
                  /\ phase' = "run"
             [] NextOp = OpCode.JumpIfFalse /\ vm.stack # <<>> ->
                  /\ vm'.ip = IF Falsey(vm_peek(vm, 0)) THEN behind + offset ELSE behind
                  /\ vm'.stack = vm.stack
                  /\ phase' = "run"
             [] OTHER -> TRUE

\* C28: a jump instruction reads its two operand bytes as first * 256 + second,
\* the offset, and leaves the stack; with ip behind the two bytes, Jump adds the
\* offset to ip, Loop subtracts it, and JumpIfFalse adds it exactly when the top
\* of the stack is nil or false.
C28_JumpOffsets == [][JumpsByOffset]_vars

\* C28, its case: Jump has gone 259 bytes forward, and from there Loop 262
\* bytes back to the Return.
C28_Witness ==
    /\ vm.chunk = LoopChunk(258)
    /\ phase = "run"
    /\ vm.ip = 3
    /\ NextOp = OpCode.Return

\* The characters that begin a token which is not an Error token.
TokenChars ==
    {"(", ")", "{", "}", ";", ",", ".", "-", "+", "/", "*", "!", "=", "<", ">"}
    \cup Digits \cup Letters \cup {"_"}

\* The token that begins behind the offset is a lexical problem: a string that
\* no quote closes, or a character that begins no token.
Problem(start) ==
    IF source[start + 1] = "\""
    THEN \A i \in start + 2..Len(source) : source[i] # "\""
    ELSE source[start + 1] \notin TokenChars

\* What one call of scan_token does to the cursor and the line, and what it returns.
ScanStep ==
    LET before == compiler.scanner
        after  == compiler'.scanner
        token  == compiler'.current
    IN  /\ before.current <= after.current
        /\ after.current <= Len(source)
        /\ before.line <= after.line
        /\ token.token_type # "Eof" => before.current + 1 <= after.current
        /\ compiler.current.token_type = "Eof" => token.token_type = "Eof"
        /\ token.token_type = "Eof" => after.current = Len(source)
        /\ token.token_type # "Eof"
           => (token.token_type = "Error" <=> Problem(after.start))
        /\ token.token_type = "Error" => token.lexeme \in ScannerMessages

\* C29: a call of scan_token never moves the cursor backward nor lowers the line,
\* moves the cursor at least one character forward when it returns another token
\* than Eof, returns Eof again after Eof, and returns a lexical problem as an
\* Error token; the calls come to return Eof.
C29_ScannerReachesEof ==
    /\ [][ScanStep]_vars
    /\ <>(compiler.current.token_type = "Eof")

\* C29, its case: a string that nothing closes, with a newline in it, has given an
\* Error token, and scan_token has returned Eof twice.
C29_Witness ==
    /\ phase = "scan"
    /\ source = <<"\"", "\n", "1">>
    /\ compiler.previous.token_type = "Eof"
    /\ compiler.current.token_type = "Eof"
    /\ compiler.scanner.line = 2

\* The token that scan_token is to return from the offset of the text.
ExpectedToken(text, from) ==
    CASE text = T_Fraction /\ from = 0 -> <<"Number", <<"1", ".", "5">>>>
      [] text = T_TrailingDot /\ from = 0 -> <<"Number", <<"1">>>>
      [] text = T_TrailingDot /\ from = 1 -> <<"Dot", <<".">>>>
      [] text = T_TwoDots /\ from = 0 -> <<"Number", <<"1", ".", "5">>>>
      [] text = T_TwoDots /\ from = 3 -> <<"Dot", <<".">>>>
      [] text = T_TwoDots /\ from = 4 -> <<"Number", <<"2">>>>
      [] text = T_LeadingDot /\ from = 0 -> <<"Dot", <<".">>>>
      [] text = T_LeadingDot /\ from = 1 -> <<"Number", <<"5">>>>
      [] text = T_Signed /\ from = 0 -> <<"Minus", <<"-">>>>
      [] text = T_Signed /\ from = 1 -> <<"Number", <<"1", ".", "5">>>>
      [] OTHER -> <<"Eof", <<>>>>

DotTexts == {T_Fraction, T_TrailingDot, T_TwoDots, T_LeadingDot, T_Signed}

\* The lexeme of a Number token: digits, or digits, one dot and digits, and no
\* digit is left behind it, nor a dot with a digit when it has no dot.
NumberLexeme(lexeme, after) ==
    LET dots == {i \in DOMAIN lexeme : lexeme[i] = "."}
        rest == Scanning(after, source)
    IN  /\ lexeme = SubSeq(source, after.start + 1, after.current)
        /\ lexeme # <<>>
        /\ \A i \in DOMAIN lexeme : lexeme[i] \in Digits \cup {"."}
        /\ lexeme[1] \in Digits
        /\ lexeme[Len(lexeme)] \in Digits
        /\ Cardinality(dots) <= 1
        /\ ~is_ascii_digit(peek(rest))
        /\ dots = {} => ~(peek(rest) = "." /\ is_ascii_digit(peek_next(rest)))

DotStep ==
    LET token == compiler'.current
    IN  /\ token.token_type = "Number" => NumberLexeme(token.lexeme, compiler'.scanner)
        /\ source \in DotTexts
           => <<token.token_type, token.lexeme>>
              = ExpectedToken(source, compiler.scanner.current)

\* C30: a Number lexeme is digits with at most one '.', which has a digit on
\* either side, and no sign, and it takes such a '.' where there is one: `1.5`
\* is one Number, `1.` is Number `1` and Dot, `1.5.2` is Number `1.5`, Dot and
\* Number `2`, `.5` is Dot and Number `5`, and `-1.5` is Minus and Number `1.5`.
C30_DotInsideNumber == [][DotStep]_vars

\* C30, its case: of `1.5.2`, scan_token has returned the Dot and then Number `2`.
C30_Witness ==
    /\ phase = "scan"
    /\ source = T_TwoDots
    /\ compiler.previous.token_type = "Dot"
    /\ compiler.current = [token_type |-> "Number", lexeme |-> <<"2">>, line |-> 1]

\* The Error tokens that scan_token returns from the scanner up to the offset.
RECURSIVE ErrorTokens(_, _)
ErrorTokens(sc, current) ==
    LET scanned(r) ==
            (IF r.tok.token_type = "Error" THEN <<r.tok>> ELSE <<>>)
            \o ErrorTokens(r.sc, current)
    IN  IF sc.current >= current THEN <<>> ELSE scanned(scan_token(sc))

\* The diagnostic of an Error token: its message, at no lexeme.
ErrorReport(token) ==
    [kind |-> "compile", line |-> token.line, at |-> <<>>, msg |-> token.lexeme]

\* What a step of the compiler does with the Error tokens it scans.
SkipsErrorTokens ==
    LET skipped(tokens) ==
            /\ compiler'.current.token_type # "Error"
            /\ compiler'.previous.token_type # "Error"
            /\ tokens # <<>>
               => /\ compiler'.had_error
                  /\ result' # "ok"
                  /\ IF compiler.panic_mode
                     THEN stderr' = stderr
                     ELSE /\ Len(stderr') = Len(stderr) + 1
                          /\ stderr'[Len(stderr')] = ErrorReport(tokens[1])
                             \/ stderr'[Len(stderr')].msg \notin ScannerMessages
    IN  skipped(ErrorTokens(Scanning(compiler.scanner, source), compiler'.scanner.current))

\* C31: after a step of the compiler neither the current nor the previous token
\* is an Error token; a step that scans Error tokens leaves the compile failed,
\* reports nothing in panic mode and otherwise one diagnostic, the first Error
\* token's message unless an error before it in the step began the panic.
C31_ErrorTokensSkipped == [][SkipsErrorTokens]_vars

\* C31, its case: the compile of `var a = @1; print "x` has reported both
\* lexical problems and failed.
C31_Witness ==
    /\ source = P_TwoProblems
    /\ phase = "exit"
    /\ exit_code = 65
    /\ Len(stderr) = 3
    /\ stderr[1].msg = UnexpectedCharacter
    /\ stderr[2].msg = UnterminatedString

\* The last byte of the code is Return.
EndsWithReturn(code) == code # <<>> /\ code[Len(code)] = OpCode.Return

\* What a step does to the chunk and to ip: compile ends the chunk with Return,
\* interpret is given a chunk with no jump in it, a pass of the loop of run moves
\* ip forward within the code, and Return, the last byte, or a runtime error ends
\* the run.
RunsForward ==
    LET code == vm.chunk.code
    IN  /\ phase' = "compiled" => EndsWithReturn(compiler'.compiling_chunk.code)
        /\ phase' = "run" /\ phase # "run"
           => /\ vm'.chunk = compiler.compiling_chunk
              /\ vm'.ip = 0
              /\ \A start \in InstructionStarts(vm'.chunk.code) :
                     vm'.chunk.code[start + 1] \notin JumpOps
        /\ phase = "run"
           => /\ EndsWithReturn(code)
              /\ vm.ip < Len(code)
              /\ vm'.chunk = vm.chunk
              /\ vm.ip < vm'.ip
              /\ vm'.ip <= Len(code)
              /\ NextOp = OpCode.Return <=> result' = "ok"
              /\ NextOp = OpCode.Return => vm'.ip = Len(code)
              /\ phase' = "returned" <=> result' \in {"ok", "runtime_error"}
              /\ phase' = "run" <=> result' = "none"
        /\ phase = "returned" => vm' = vm /\ stdout' = stdout /\ phase' = "exit"

\* C32: the chunk that compile builds ends with Return and holds no jump or loop
\* instruction; every pass of the loop of run moves ip forward and leaves it
\* within the code; the run ends, with success exactly at the Return that is the
\* last byte, and after the Return or a runtime error the VM executes nothing.
\* (A run that ends in neither is the subject of C33.)
C32_RunReachesReturn ==
    /\ [][RunsForward]_vars
    /\ (phase = "run") ~> (phase # "run")

\* C32, its case: a run has printed, then ended in a runtime error before the
\* Return, and the process has exited with nothing more executed.
C32_Witness ==
    /\ phase = "exit"
    /\ result = "runtime_error"
    /\ stdout # <<>>
    /\ vm.ip < Len(vm.chunk.code)
    /\ EndsWithReturn(vm.chunk.code)

\* C33: the run of a chunk that compile returned never crashes, that is never
\* pops or peeks an empty stack, reads code, a constant or a stack slot out of
\* range, decodes a byte that is no opcode or takes a constant that is no string
\* for a name: the run ends with success or with a runtime error.
C33_RunNeverCrashes ==
    /\ result # "panic"
    /\ phase \in {"returned", "exit"} /\ args = 2
       => result \in {"ok", "runtime_error", "compile_error"}

\* What repl does with a line and with a failed compile, as the claim has it.
LineOnItsOwn ==
    /\ phase = "read" /\ stdin.at < Len(stdin.lines)
       => source' = trim(stdin.lines[stdin.at + 1])
    /\ phase = "compiled" /\ compiler.had_error
       => /\ buffer' = <<>>
          /\ stdout' = Append(stdout, Prompt)
          /\ phase' = "read"

\* C34: repl compiles each line it reads on its own, without the text of the
\* lines before it; when the compile of a line fails, repl clears the buffer and
\* shows the prompt again before it reads the next line.
C34_FailedLineForgotten == [][LineOnItsOwn]_vars

\* What repl has printed when it has read the lines, and the globals a (its
\* value, 0 when it is not defined) and s (whether it is defined) it then has:
\* nothing more once a compile has failed.
RECURSIVE Session(_, _)
Session(lines, n) ==
    LET after(before) ==
            LET line == lines[n] IN
            IF before.failed \/ line = L_Bad
            THEN [before EXCEPT !.failed = TRUE]
            ELSE IF line = L_VarA
            THEN [before EXCEPT !.a = 1, !.out = Append(@, Prompt)]
            ELSE IF line = L_SetA
            THEN IF before.a = 0
                 THEN [before EXCEPT !.out = Append(@, Prompt)]
                 ELSE [before EXCEPT !.a = @ + 1,
                                     !.out = @ \o <<<<DigitChar(before.a + 1)>>, Prompt>>]
            ELSE IF line = L_Foo
            THEN [before EXCEPT !.s = TRUE, !.out = Append(@, Prompt)]
            ELSE IF line = L_FooEq
            THEN IF before.s
                 THEN [before EXCEPT !.out = @ \o <<<<"true">>, Prompt>>]
                 ELSE [before EXCEPT !.out = Append(@, Prompt)]
            ELSE [before EXCEPT !.out = @ \o <<<<"false">>, Prompt>>]
    IN  IF n = 0
        THEN [out |-> <<Prompt>>, a |-> 0, s |-> FALSE, failed |-> FALSE]
        ELSE after(Session(lines, n - 1))

\* The state at the head of the loop of repl is that of the session so far.
SessionKept ==
    LET kept(session) ==
            /\ ~session.failed /\ stdin.ended = 0 => stdout = session.out
            /\ <<"a">> \in DOMAIN vm.globals <=> session.a # 0
            /\ session.a # 0
               => vm.globals[<<"a">>] = NumberV(Fin(FALSE, session.a, 1))
            /\ <<"s">> \in DOMAIN vm.globals <=> session.s
            /\ session.s
               => vm.globals[<<"s">>] = ObjStrV(vm.strings[<<"f", "o", "o", "b", "a", "r">>])
    IN  phase = "read" => kept(Session(stdin.lines, stdin.at))

\* What a step keeps of the VM: interpret replaces the chunk and ip and nothing
\* else; the compile of a line and a pass of run that ends in a runtime error
\* leave the globals; no step but a pass of run changes a global, and no step
\* forgets a global or an interned string.
VmKept ==
    /\ phase = "compiled" /\ ~compiler.had_error
       => vm' = [vm EXCEPT !.chunk = compiler.compiling_chunk, !.ip = 0]
    /\ phase # "run" \/ result' = "runtime_error" => vm'.globals = vm.globals
    /\ DOMAIN vm.globals \subseteq DOMAIN vm'.globals
    /\ \A chars \in DOMAIN vm.strings :
           chars \in DOMAIN vm'.strings /\ vm'.strings[chars] = vm.strings[chars]

\* C35: the globals and the interned strings of the VM outlive the chunk:
\* interpret replaces the chunk and ip only; a global that one line defined is
\* read and assigned by the lines after it; `"foo" + "bar"` kept by one line is
\* equal to the "foobar" of a later line; and a compile that fails or a run that
\* ends in a runtime error changes no global.
C35_VmStateOutlivesChunk == [](SessionKept) /\ [][VmKept]_vars

\* C35, its case: a is defined by the first line, the run of the second line
\* has ended in a runtime error, and the third line has read a, assigned it and
\* printed 2.
C35_Witness ==
    /\ stdin = [lines |-> <<L_VarA, L_FooEq, L_SetA>>, at |-> 3, ended |-> 0]
    /\ phase = "read"
    /\ Len(stderr) = 1
    /\ stdout = <<Prompt, Prompt, Prompt, <<"2">>, Prompt>>
    /\ vm.globals[<<"a">>] = NumberV(Fin(FALSE, 2, 1))

====
